---- MODULE Spec2Model ----
(***************************************************************************)
(* Model of the systemd diagnostics of openshift-extras                    *)
(* (diagnostics/systemd/systemd.go): the journald log scanner              *)
(* matchLogsSinceLastStart with the rule catalog unitLogSpecs, and the     *)
(* unit dependency check unitRequiresUnit.                                 *)
(*                                                                         *)
(* Regular expressions are not interpreted.  A log message is abstracted   *)
(* to the set of catalog regular expressions that match it (plus the       *)
(* client address the bad-certificate expression captures), so every       *)
(* overlap of patterns on one message is an input of the model.            *)
(*                                                                         *)
(* Go slices are modelled as headers [arr, len] over backing arrays kept   *)
(* in heap, so that copying a slice and aliasing it are different things.  *)
(***************************************************************************)
EXTENDS Integers, Sequences, FiniteSets, TLC

VARIABLES
    unitLogSpecs,        \* the rule catalog: per unit Name, StartMatch, LogMatchers (slice header)
    heap,                \* backing arrays of the slices, by array id
    tlsClientErrorSeen,  \* package variable: NilMap or the map of the client addresses seen
    pc,                  \* "idle": no scan running; "loop": in the read loop of a scan;
                         \* "done": the scan is over and about to return
    unit,                \* index in unitLogSpecs of the unit of the current scan (0: none)
    matchCopy,           \* slice header of the working copy of the current scan
    consumed,            \* lines lineReader.Scan() has delivered in the current scan
    line,                \* the line delivered last (NoLine before the first)
    out,                 \* messages handed to the log sink on the last line (or by the failed start)
    evals,               \* Regexps tested against the last line, in order
    fired,               \* Regexps of the matchers that fired on the last line, in order
    fires,               \* per Regexp: firings in the current scan
    removed,             \* Regexps of the matchers removed from the working copy in this scan
    removedAt,           \* value of consumed when the last matcher was removed (0: none removed)
    boundaryAt,          \* value of consumed when a line first matched StartMatch (0: none)
    stop,                \* why the scan ended ("none": it has not)
    call,                \* the last unitRequiresUnit call: its arguments and its findings
    status,              \* the UnitStatus diagnostic: the snapshot it runs on and its findings
    certLog,             \* what the bad-certificate Interpret has logged since the process
                         \* started: client and text of each message, in order
    proc,                \* the journalctl command of the last scan: its stdout pipe, its
                         \* process, whether the deferred Close/Wait is registered, and
                         \* (after the return) how the scan ended
    pass,                \* the AnalyzeLogs pass: where it is in its range over the catalog,
                         \* the unit it is at, the snapshot entry it read for that unit
    current,             \* package log: the threshold Level
    stdout,              \* package log: the lines printed, in order
    logCalls,            \* package log: the calls of log so far (level, message, threshold
                         \* at the call), in order
    env,                 \* package discovery: the fields of the Environment it reads and sets
    disc                 \* package discovery: the function that runs, its inputs, its
                         \* locals, the messages it has logged

vars == <<unitLogSpecs, heap, tlsClientErrorSeen, pc, unit, matchCopy, consumed, line,
          out, evals, fired, fires, removed, removedAt, boundaryAt, stop, call, status, certLog,
          proc, pass, current, stdout, logCalls, env, disc>>

logVars == <<current, stdout, logCalls>>

discVars == <<env, disc>>

scanVars == <<unitLogSpecs, heap, tlsClientErrorSeen, pc, unit, matchCopy, consumed, line,
              out, evals, fired, fires, removed, removedAt, boundaryAt, stop, certLog, proc>>

----------------------------------------------------------------------------
(* Bounds of the model *)

MaxMasterLines == 5   \* the same, in the scans of openshift-master over one-rule lines
MaxLines == 3   \* lines a log stream delivers before it ends, at most
MaxPats == 2    \* catalog expressions one message matches at once, at most

PipeCap == 2     \* lines the stdout pipe of journalctl holds before a write blocks
MaxOutput == 2   \* lines journalctl still has to write when the read loop ends, at most

Clients == {"10.0.0.5", "10.0.0.6"}
NoClient == ""

----------------------------------------------------------------------------
(* log levels *)

ErrorLevel == 0
WarnLevel == 1
InfoLevel == 2
DebugLevel == 3

\* One message handed to the log sink: level, id and the fields of log.Msg.
Msg(level, id, unitName, logMsg, text, client) ==
    [level |-> level, id |-> id, unit |-> unitName, logMsg |-> logMsg,
     text |-> text, client |-> client]

----------------------------------------------------------------------------
(* Rule model *)

NoInterpret == "nil"
NilMap == [nil |-> TRUE, keys |-> {}]            \* a nil map[string]bool
MapOf(keys) == [nil |-> FALSE, keys |-> keys]    \* a map holding true for keys

logMatcher(re, level, id, interpretation, keep, interpret) ==
    [Regexp |-> re, Level |-> level, Id |-> id, Interpretation |-> interpretation,
     KeepAfterMatch |-> keep, Interpret |-> interpret]

badImageTemplate ==
    logMatcher("reBadImage", InfoLevel, "", "txtBadImage", FALSE, NoInterpret)

\* The catalog as declared: LogMatchers are the slice literals.
UnitSpecs == <<
    [Name |-> "openshift-master", StartMatch |-> "reStartMaster",
     LogMatchers |-> <<
        badImageTemplate,
        logMatcher("reOMIgnore", InfoLevel, "sdLogOMIgnore", "txtOMIgnore", FALSE, NoInterpret),
        logMatcher("reOMhzRef", InfoLevel, "sdLogOMhzRef", "txtOMhzRef", FALSE, NoInterpret),
        logMatcher("reBadCert", WarnLevel, "", "", FALSE, "badCert"),
        logMatcher("reOMunauthNode", WarnLevel, "sdLogOMunauthNode", "txtOMunauthNode", FALSE, NoInterpret)
     >>],
    [Name |-> "openshift-sdn-master", StartMatch |-> "reStartSdnMaster",
     LogMatchers |-> << >>],
    [Name |-> "openshift-node", StartMatch |-> "reStartNode",
     LogMatchers |-> <<
        badImageTemplate,
        logMatcher("reONconnMaster", ErrorLevel, "sdLogONconnMaster", "txtONconnMaster", FALSE, NoInterpret),
        logMatcher("reONMasterForbids", ErrorLevel, "sdLogONMasterForbids", "txtONMasterForbids", FALSE, NoInterpret)
     >>],
    [Name |-> "openshift-sdn-node", StartMatch |-> "reStartSdnNode",
     LogMatchers |-> <<
        logMatcher("reOSNnoSubnet", WarnLevel, "sdLogOSNnoSubnet", "txtOSNnoSubnet", FALSE, NoInterpret)
     >>],
    [Name |-> "docker", StartMatch |-> "reStartDocker",
     LogMatchers |-> <<
        logMatcher("reDbadOpt", ErrorLevel, "sdLogDbadOpt", "txtDbadOpt", FALSE, NoInterpret),
        logMatcher("reDfatal", ErrorLevel, "sdLogDfatal", "txtDfatal", FALSE, NoInterpret)
     >>],
    [Name |-> "openvswitch", StartMatch |-> "reStartOvs",
     LogMatchers |-> << >>]
>>

Units == 1..Len(UnitSpecs)

CopyArr == "matchCopy"    \* array id of the backing array a scan allocates

\* Regexps of a sequence of matchers
RegexpsOf(ms) == {ms[i].Regexp : i \in 1..Len(ms)}

AllRegexps == UNION {RegexpsOf(UnitSpecs[u].LogMatchers) : u \in Units}

\* Elements of a slice
Elems(h, s) == SubSeq(h[s.arr], 1, s.len)

\* The matcher list the catalog holds for unit u in the current state
LogMatchersOf(u) == Elems(heap, unitLogSpecs[u].LogMatchers)

----------------------------------------------------------------------------
(* Log lines *)

NoMessage == [pats |-> {}, client |-> NoClient]
NoLine == [json |-> FALSE, Message |-> NoMessage, none |-> TRUE]

UnitPatterns(u) == {UnitSpecs[u].StartMatch} \cup RegexpsOf(UnitSpecs[u].LogMatchers)

\* The messages a journal line of unit u can carry
Messages(u) ==
    {[pats |-> P, client |-> c] :
        <<P, c>> \in {pc_ \in (SUBSET UnitPatterns(u)) \X (Clients \cup {NoClient}) :
                        /\ Cardinality(pc_[1]) <= MaxPats
                        /\ ("reBadCert" \in pc_[1]) <=> (pc_[2] # NoClient)}}

\* The lines the journal of unit u can deliver: records that are not JSON, and JSON records
StreamLines(u) ==
    {[json |-> FALSE, Message |-> NoMessage, none |-> FALSE]}
    \cup {[json |-> TRUE, Message |-> m, none |-> FALSE] : m \in Messages(u)}

\* The same, by unit index
JournalLines == [u \in Units |-> StreamLines(u)]

\* (Variant: no line is rejected.)
UnmarshalNoErr(l) == [err |-> FALSE, entry |-> [Message |-> l.Message]]

\* json.Unmarshal(bytes, &entry)
Unmarshal(l) == [err |-> ~l.json, entry |-> [Message |-> l.Message]]

\* Regexp.MatchString
MatchString(re, message) == re \in message.pats

\* Regexp.FindStringSubmatch: << >> is nil; else the match followed by its capture groups
FindStringSubmatch(re, message) ==
    IF re \notin message.pats THEN << >>
    ELSE IF re = "reBadCert" THEN <<"match", message.client>>
    ELSE <<"match">>

----------------------------------------------------------------------------
(* The regular expressions of the docker unit, interpreted *)

\* Texts are sequences of characters.  The sources are the contents of the Go string
\* literals handed to regexp.MustCompile: the literals of the docker unit are raw
\* strings, so every character between the back quotes is part of the expression.
reStartDockerSource == <<
    "S", "t", "a", "r", "t", "i", "n", "g", " ", "D", "o", "c", "k", "e",
    "r", " ", "A", "p", "p", "l", "i", "c", "a", "t", "i", "o", "n", " ",
    "C", "o", "n", "t", "a", "i", "n", "e", "r", " ", "E", "n", "g", "i",
    "n", "e", "." >>

reDbadOptSource == <<
    "U", "s", "a", "g", "e", ":", " ", "d", "o", "c", "k", "e", "r", " ",
    "\\", "\\", "[", "O", "P", "T", "I", "O", "N", "S", "\\", "\\", "]",
    " ", "C", "O", "M", "M", "A", "N", "D" >>

reDfatalSource == <<
    "\\", "\\", "s", "l", "e", "v", "e", "l", "=", "\"", "f", "a", "t",
    "a", "l", "\"", "\\", "\\", "s" >>

\* the source of each expression of the docker unit, by the name the catalog gives it
DockerSources ==
    [re \in {"reStartDocker", "reDbadOpt", "reDfatal"} |->
        IF re = "reStartDocker" THEN reStartDockerSource
        ELSE IF re = "reDbadOpt" THEN reDbadOptSource
        ELSE reDfatalSource]

\* characters the class \s holds
Whitespace == {" ", "\t", "\n", "\f", "\r"}

\* One element of a compiled expression: a literal character, the class \s, the
\* dot, or a bracket class
Tok(kind, ch, set) == [kind |-> kind, ch |-> ch, set |-> set]

\* The bracket class that starts after the "[" before place i: its characters and
\* the place after its "]".  A backslash takes the next character literally.
RECURSIVE ParseClass(_, _, _)
ParseClass(src, i, acc) ==
    IF i > Len(src) THEN [set |-> acc, next |-> i]
    ELSE IF src[i] = "]" THEN [set |-> acc, next |-> i + 1]
    ELSE IF src[i] = "\\" /\ i < Len(src)
         THEN ParseClass(src, i + 2, acc \cup {src[i + 1]})
    ELSE ParseClass(src, i + 1, acc \cup {src[i]})

\* regexp.MustCompile, for the syntax the docker expressions use: a backslash before
\* s is the whitespace class, a backslash before any other character (a backslash
\* included) is that character itself, a dot is any character, a bracket opens a
\* class, any other character is itself.
RECURSIVE Compile(_, _)
Compile(src, i) ==
    IF i > Len(src) THEN << >>
    ELSE IF src[i] = "\\" /\ i < Len(src)
         THEN <<IF src[i + 1] = "s" THEN Tok("space", "", {}) ELSE Tok("lit", src[i + 1], {})>>
              \o Compile(src, i + 2)
    ELSE IF src[i] = "." THEN <<Tok("any", "", {})>> \o Compile(src, i + 1)
    ELSE IF src[i] = "["
         THEN LET c == ParseClass(src, i + 1, {})
              IN  <<Tok("class", "", c.set)>> \o Compile(src, c.next)
    ELSE <<Tok("lit", src[i], {})>> \o Compile(src, i + 1)

\* the character c is one the element accepts
Accepts(tok, c) ==
    IF tok.kind = "lit" THEN c = tok.ch
    ELSE IF tok.kind = "space" THEN c \in Whitespace
    ELSE IF tok.kind = "class" THEN c \in tok.set
    ELSE c # "\n"

\* Regexp.MatchString on a text: the expression matches somewhere in the text
Find(toks, text) ==
    \E pos \in 1..(Len(text) - Len(toks) + 1) :
        \A k \in 1..Len(toks) : Accepts(toks[k], text[pos + k - 1])

\* the compiled expressions of the docker unit
DockerRegexps == [re \in DOMAIN DockerSources |-> Compile(DockerSources[re], 1)]

\* The journal line of the docker unit whose MESSAGE is the text, as the scanner
\* sees it: the expressions of the unit that match it
DockerLine(text) ==
    [json |-> TRUE,
     Message |-> [pats |-> {re \in DOMAIN DockerRegexps : Find(DockerRegexps[re], text)},
                  client |-> NoClient],
     none |-> FALSE]

\* The three messages of the docker journal, newest first
FatalFirst == <<
    "l", "e", "v", "e", "l", "=", "\"", "f", "a", "t", "a", "l", "\"", " ",
    ".", ".", "." >>

DockerStarting == <<
    "S", "t", "a", "r", "t", "i", "n", "g", " ", "D", "o", "c", "k", "e",
    "r", " ", "A", "p", "p", "l", "i", "c", "a", "t", "i", "o", "n", " ",
    "C", "o", "n", "t", "a", "i", "n", "e", "r", " ", "E", "n", "g", "i",
    "n", "e", "." >>

FatalOlder == <<
    "l", "e", "v", "e", "l", "=", "\"", "f", "a", "t", "a", "l", "\"", " ",
    ".", "." >>

\* a message the fatal expression does match: it holds backslash, s on both sides
FatalWithBackslashes == <<
    "\\", "s", "l", "e", "v", "e", "l", "=", "\"", "f", "a", "t", "a", "l",
    "\"", "\\", "s" >>

----------------------------------------------------------------------------
(* Messages of the scanner *)

\* prelude + body: "Found '<unit>' journald log message:\n  <message>\n" + body
Text(unitName, message, body) == [unit |-> unitName, message |-> message, body |-> body]

\* log.Log(match.Level, match.Id, log.Msg{"text": prelude + match.Interpretation,
\*         "unit": unit.Name, "logMsg": entry.Message})
StaticFindingWrongLevel(name, match, entry) ==
    Msg(InfoLevel, "sdLogMatch", name, entry.Message,
        Text(name, entry.Message, match.Interpretation), NoClient)

StaticFinding(name, match, entry) ==
    Msg(match.Level, match.Id, name, entry.Message,
        Text(name, entry.Message, match.Interpretation), NoClient)

\* The Interpret function of the bad-certificate matcher of openshift-master.
\* Returns the new value of tlsClientErrorSeen, the messages logged and the result.
\* (Variants: one that gives a new client the full text again, one that does not
\* record a new client, one that makes a new map for it, one that returns false on
\* a repeat.)
InterpretBadCertAlwaysFull(seen, entry, matches) ==
    LET client == matches[2]
        prelude(body) == Text("openshift-master", entry.Message, body)
    IN  IF seen.nil \/ client \notin seen.keys
        THEN [seen |-> MapOf(seen.keys \cup {client}),
              out |-> <<Msg(WarnLevel, "sdLogOMreBadCert", "", NoMessage,
                            prelude("txtBadCertFull"), client)>>,
              keep |-> TRUE]
        ELSE [seen |-> seen, out |-> << >>, keep |-> TRUE]

InterpretBadCertForgetful(seen, entry, matches) ==
    LET client == matches[2]
        prelude(body) == Text("openshift-master", entry.Message, body)
    IN  IF seen.nil
        THEN [seen |-> MapOf({client}),
              out |-> <<Msg(WarnLevel, "sdLogOMreBadCert", "", NoMessage,
                            prelude("txtBadCertFull"), client)>>,
              keep |-> TRUE]
        ELSE IF client \notin seen.keys
        THEN [seen |-> seen,
              out |-> <<Msg(WarnLevel, "sdLogOMreBadCert", "", NoMessage,
                            prelude("txtBadCertOtherClient"), client)>>,
              keep |-> TRUE]
        ELSE [seen |-> seen, out |-> << >>, keep |-> TRUE]

InterpretBadCertReinit(seen, entry, matches) ==
    LET client == matches[2]
        prelude(body) == Text("openshift-master", entry.Message, body)
    IN  IF seen.nil
        THEN [seen |-> MapOf({client}),
              out |-> <<Msg(WarnLevel, "sdLogOMreBadCert", "", NoMessage,
                            prelude("txtBadCertFull"), client)>>,
              keep |-> TRUE]
        ELSE IF client \notin seen.keys
        THEN [seen |-> MapOf({client}),
              out |-> <<Msg(WarnLevel, "sdLogOMreBadCert", "", NoMessage,
                            prelude("txtBadCertOtherClient"), client)>>,
              keep |-> TRUE]
        ELSE [seen |-> seen, out |-> << >>, keep |-> TRUE]

InterpretBadCertDropRepeat(seen, entry, matches) ==
    LET client == matches[2]
        prelude(body) == Text("openshift-master", entry.Message, body)
    IN  IF seen.nil
        THEN [seen |-> MapOf({client}),
              out |-> <<Msg(WarnLevel, "sdLogOMreBadCert", "", NoMessage,
                            prelude("txtBadCertFull"), client)>>,
              keep |-> TRUE]
        ELSE IF client \notin seen.keys
        THEN [seen |-> MapOf(seen.keys \cup {client}),
              out |-> <<Msg(WarnLevel, "sdLogOMreBadCert", "", NoMessage,
                            prelude("txtBadCertOtherClient"), client)>>,
              keep |-> TRUE]
        ELSE [seen |-> seen, out |-> << >>, keep |-> FALSE]

InterpretBadCert(seen, entry, matches) ==
    LET client == matches[2]
        prelude(body) == Text("openshift-master", entry.Message, body)
    IN  IF seen.nil
        THEN [seen |-> MapOf({client}),
              out |-> <<Msg(WarnLevel, "sdLogOMreBadCert", "", NoMessage,
                            prelude("txtBadCertFull"), client)>>,
              keep |-> TRUE]
        ELSE IF client \notin seen.keys
        THEN [seen |-> MapOf(seen.keys \cup {client}),
              out |-> <<Msg(WarnLevel, "sdLogOMreBadCert", "", NoMessage,
                            prelude("txtBadCertOtherClient"), client)>>,
              keep |-> TRUE]
        ELSE [seen |-> seen, out |-> << >>, keep |-> TRUE]

\* The messages of the bad-certificate Interpret among msgs: client and text of each
IsBadCertMsg(m) == m.id = "sdLogOMreBadCert"

BadCertLogged(msgs) ==
    LET own == SelectSeq(msgs, IsBadCertMsg)
    IN  [i \in 1..Len(own) |-> [client |-> own[i].client, body |-> own[i].text.body]]

\* match.Interpret(env, &entry, strings): dispatch on the function the matcher holds
CallInterpret(interpret, seen, entry, matches) ==
    IF interpret = "badCert" THEN InterpretBadCert(seen, entry, matches)
    ELSE [seen |-> seen, out |-> << >>, keep |-> FALSE]

\* keep := match.KeepAfterMatch; if match.Interpret != nil { keep = match.Interpret(...) }
KeepFlagOnly(match, result) == match.KeepAfterMatch

\* (Variant: the decision is taken the wrong way round.)
KeepDecisionInverted(match, result) ==
    IF match.Interpret # NoInterpret THEN ~result ELSE ~match.KeepAfterMatch

\* (Variant: every matcher that fires is removed.)
KeepNever(match, result) == FALSE

KeepDecision(match, result) ==
    IF match.Interpret # NoInterpret THEN result ELSE match.KeepAfterMatch

----------------------------------------------------------------------------
(* Slices *)

\* append([]logMatcher(nil), unit.LogMatchers...): a new backing array holding the
\* elements, and a header over it.  Returns the new heap and the header.
AliasMatchers(h, s) == [heap |-> h, mc |-> s]

CopyMatchers(h, s) ==
    [heap |-> [h EXCEPT ![CopyArr] = Elems(h, s)],
     mc |-> [arr |-> CopyArr, len |-> s.len]]

\* append(matchCopy[:index], matchCopy[index+1:]...), index counted from 1: the
\* elements after index move down one place in the backing array of matchCopy,
\* the last place keeps its old value, the header is one shorter.
KeepAt(h, s, index) == [heap |-> h, mc |-> s]

\* (Variant: the matchers after index go with it.)
TruncateAt(h, s, index) ==
    IF index > s.len THEN [heap |-> h, mc |-> s]
    ELSE [heap |-> h, mc |-> [s EXCEPT !.len = index - 1]]

\* (Variant: the elements move down but the header keeps its length.)
ShiftOnlyAt(h, s, index) ==
    IF index > s.len THEN [heap |-> h, mc |-> s]
    ELSE [heap |-> [h EXCEPT ![s.arr] =
                      [j \in 1..Len(@) |->
                          IF j >= index /\ j < s.len THEN h[s.arr][j + 1] ELSE h[s.arr][j]]],
          mc |-> s]

SwapRemoveAt(h, s, index) ==
    IF index > s.len THEN [heap |-> h, mc |-> s]
    ELSE [heap |-> [h EXCEPT ![s.arr] = [@ EXCEPT ![index] = h[s.arr][s.len]]],
          mc |-> [s EXCEPT !.len = @ - 1]]

RemoveAt(h, s, index) ==
    IF index > s.len THEN [heap |-> h, mc |-> s]
    ELSE [heap |-> [h EXCEPT ![s.arr] =
                      [j \in 1..Len(@) |->
                          IF j >= index /\ j < s.len THEN h[s.arr][j + 1] ELSE h[s.arr][j]]],
          mc |-> [s EXCEPT !.len = @ - 1]]

----------------------------------------------------------------------------
(* The read loop of matchLogsSinceLastStart *)

\* Loop control of "for index, match := range matchCopy": the index the range goes
\* to after the body ran for index; a match ends the body with break, which leaves
\* the range (n is the length of the ranged slice).
NextIndexNoBreak(index, matched, n) == index + 1

NextIndex(index, matched, n) == IF matched THEN n + 1 ELSE index + 1

\* if unit.StartMatch.MatchString(entry.Message) { break }
NeverAtStart(spec, entry) == FALSE

AtStart(spec, entry) == MatchString(spec.StartMatch, entry.Message)

\* if len(matchCopy) == 0 { break }
\* (Variant: the loop body does not test for an empty working copy.)
NoRulesRemainUntested(mc) == FALSE

NoRulesRemain(mc) == mc.len = 0

\* The body of the range loop for a matcher that matched: interpret or log, then
\* remove the matcher unless it is to be kept.  st is the state of the scan:
\* heap, mc (matchCopy), seen (tlsClientErrorSeen), out, evals, fired, removed.
OnMatch(index, match, strings, name, st, entry) ==
    LET ret == IF match.Interpret # NoInterpret
               THEN CallInterpret(match.Interpret, st.seen, entry, strings)
               ELSE [seen |-> st.seen,
                     out |-> <<StaticFinding(name, match, entry)>>,
                     keep |-> FALSE]
        keep == KeepDecision(match, ret.keep)
        rm == IF ~keep THEN RemoveAt(st.heap, st.mc, index)
              ELSE [heap |-> st.heap, mc |-> st.mc]
    IN  [st EXCEPT !.seen = ret.seen,
                   !.out = @ \o ret.out,
                   !.fired = Append(@, match.Regexp),
                   !.heap = rm.heap,
                   !.mc = rm.mc,
                   !.removed = IF rm.mc.len < st.mc.len THEN Append(@, match.Regexp) ELSE @]

\* for index, match := range matchCopy { ... }: rng is the header the range
\* statement evaluated once; the element is read from the backing array when its
\* turn comes.
RECURSIVE RangeMatchers(_, _, _, _, _)
RangeMatchers(index, rng, name, st, entry) ==
    IF index > rng.len THEN st
    ELSE LET match == st.heap[rng.arr][index]
             strings == FindStringSubmatch(match.Regexp, entry.Message)
             st1 == [st EXCEPT !.evals = Append(@, match.Regexp)]
         IN  IF strings # << >>
             THEN RangeMatchers(NextIndex(index, TRUE, rng.len), rng, name,
                                OnMatch(index, match, strings, name, st1, entry), entry)
             ELSE RangeMatchers(NextIndex(index, FALSE, rng.len), rng, name, st1, entry)

\* (Variant: the loop also ends on the line on which a matcher fires.)
LoopBodyBreakOnMatch(spec, st, l) ==
    IF NoRulesRemain(st.mc) THEN [st EXCEPT !.brk = "empty"]
    ELSE LET u == Unmarshal(l)
         IN  IF u.err
             THEN [st EXCEPT !.out = <<Msg(DebugLevel, "sdLogBadJSON", "", NoMessage,
                                           Text("", NoMessage, "tmplBadJSON"), NoClient)>>]
             ELSE IF AtStart(spec, u.entry) THEN [st EXCEPT !.brk = "boundary"]
             ELSE LET r == RangeMatchers(1, st.mc, spec.Name, st, u.entry)
                  IN  IF r.fired # << >> THEN [r EXCEPT !.brk = "match"] ELSE r

\* One iteration of "for lineReader.Scan() { ... }" on the line l just delivered.
\* brk is the reason the iteration left the loop, "none" if it did not.
LoopBody(spec, st, l) ==
    IF NoRulesRemain(st.mc) THEN [st EXCEPT !.brk = "empty"]
    ELSE LET u == Unmarshal(l)
         IN  IF u.err
             THEN [st EXCEPT !.out = <<Msg(DebugLevel, "sdLogBadJSON", "", NoMessage,
                                           Text("", NoMessage, "tmplBadJSON"), NoClient)>>]
             ELSE IF AtStart(spec, u.entry) THEN [st EXCEPT !.brk = "boundary"]
             ELSE RangeMatchers(1, st.mc, spec.Name, st, u.entry)

----------------------------------------------------------------------------
(* The journalctl command of a scan *)

\* no command yet
\* stdout: the pipe ("open" while the scanner holds its read end); cmd: the process;
\* fill: lines written to the pipe and not read; togo: lines the process has still
\* to write; step: calls of the deferred function made so far
NoProc ==
    [stdout |-> "none", cmd |-> "none", deferred |-> FALSE, exit |-> "none",
     fill |-> 0, togo |-> 0, step |-> 0]

\* cmd.StdoutPipe() and cmd.Start() succeeded and the deferred function is registered
Started ==
    [stdout |-> "open", cmd |-> "running", deferred |-> TRUE, exit |-> "none",
     fill |-> 0, togo |-> 0, step |-> 0]

\* The command after a failure.  at = "pipe": StdoutPipe failed and nothing was opened;
\* at = "start": the pipe was made and Start failed, and exec.Cmd.Start has closed the
\* descriptors of the command before it returns the error.  No process runs.
FailedAt(at) ==
    [stdout |-> IF at = "start" THEN "closed" ELSE "none", cmd |-> "none",
     deferred |-> FALSE, exit |-> "none", fill |-> 0, togo |-> 0, step |-> 0]

\* (Variant: a return that runs no deferred function.)
RunDeferredNothing(p, how) == [p EXCEPT !.exit = how]

\* The return of matchLogsSinceLastStart: the deferred function, if registered, closes
\* the reader and waits for the command.  how: the way the scan ended.
RunDeferred(p, how) ==
    IF p.deferred
    THEN [stdout |-> "closed", cmd |-> "reaped", deferred |-> FALSE, exit |-> how,
          fill |-> 0, togo |-> 0, step |-> 0]
    ELSE [p EXCEPT !.exit = how]

\* (Variant: the deferred function waits for the command before it closes the reader.)
DeferredCallsWaitFirst(p) == IF p.deferred THEN <<"wait", "close">> ELSE << >>

\* The calls of the deferred function, in order: reader.Close(), then cmd.Wait()
DeferredCalls(p) == IF p.deferred THEN <<"close", "wait">> ELSE << >>

\* The call the deferred function is at ("none" when it has made them all)
NextDeferred(p) ==
    IF p.step < Len(DeferredCalls(p)) THEN DeferredCalls(p)[p.step + 1] ELSE "none"

\* journalctl cannot go on: it has a line to write, the pipe is full and its read
\* end is open, so the write blocks until a line is read or the read end is closed
WriteBlocked(p) ==
    p.cmd = "running" /\ p.togo > 0 /\ p.stdout = "open" /\ p.fill = PipeCap

----------------------------------------------------------------------------
(* The range of AnalyzeLogs over the catalog *)

\* types.SystemdUnit
SystemdUnit(name, exists, enabled, active) ==
    [Name |-> name, Exists |-> exists, Enabled |-> enabled, Active |-> active]

\* the zero SystemdUnit: what env.SystemdUnits gives for a name it does not hold
NoSvc == SystemdUnit("", FALSE, FALSE, FALSE)

\* no AnalyzeLogs pass is running: matchLogsSinceLastStart is called on any unit
FreePass == [at |-> "free", idx |-> 0, svc |-> NoSvc, info |-> "", failed |-> {}]

\* an AnalyzeLogs pass about to start its range
NewPass == [at |-> "range", idx |-> 0, svc |-> NoSvc, info |-> "", failed |-> {}]

\* (Variant: only an enabled unit is scanned.)
ScanWantedEnabledOnly(svc) == svc.Enabled

\* svc.Enabled || svc.Active
ScanWanted(svc) == svc.Enabled \/ svc.Active

\* matchLogsSinceLastStart(unit, env) can be called on unit u now
CallAllowed(p, u) ==
    \/ p.at = "free"
    \/ p.at = "test" /\ p.idx = u /\ ScanWanted(p.svc)

\* The pass when it calls the scan of unit name: sdCheckLogs is logged for it at
\* Info level (info holds its "name").  fails: the call fails to start the journal.
\* failed holds what went wrong in the scans of the pass so far: "journal" (a journal
\* that could not be read), "json" (a line that is not JSON).
EnterScan(p, name, fails) ==
    IF p.at = "free" THEN p
    ELSE [p EXCEPT !.at = "scan", !.svc = NoSvc, !.info = name,
                   !.failed = p.failed \cup (IF fails THEN {"journal"} ELSE {})]

\* (Variant: a pass that ends when a scan could not read the journal.)
AfterScanAbortOnError(p, how) ==
    IF p.at = "scan"
    THEN [p EXCEPT !.at = IF how = "error" THEN "end" ELSE "range", !.info = ""]
    ELSE p

\* The pass when the scan returns: the range goes on, however the scan ended
AfterScan(p, how) ==
    IF p.at = "scan" THEN [p EXCEPT !.at = "range", !.info = ""] ELSE p

----------------------------------------------------------------------------
(* Actions of the scanner *)

ZeroFires == [re \in AllRegexps |-> 0]

\* matchLogsSinceLastStart(unit, env) up to the read loop, journalctl started
StartScan(u) ==
    /\ pc = "idle"
    /\ CallAllowed(pass, u)
    /\ pass' = EnterScan(pass, unitLogSpecs[u].Name, FALSE)
    /\ proc' = Started
    /\ LET c == CopyMatchers(heap, unitLogSpecs[u].LogMatchers)
       IN  /\ heap' = c.heap
           /\ matchCopy' = c.mc
    /\ pc' = "loop"
    /\ unit' = u
    /\ consumed' = 0
    /\ line' = NoLine
    /\ out' = << >>
    /\ evals' = << >>
    /\ fired' = << >>
    /\ fires' = ZeroFires
    /\ removed' = {}
    /\ removedAt' = 0
    /\ boundaryAt' = 0
    /\ stop' = "none"
    /\ UNCHANGED <<unitLogSpecs, tlsClientErrorSeen, call, status, certLog, logVars, discVars>>

\* (Variant: the failure is logged and the function goes on into the loop.)
JournalFailsNoReturn(u) ==
    /\ pc = "idle"
    /\ CallAllowed(pass, u)
    /\ pass' = EnterScan(pass, unitLogSpecs[u].Name, TRUE)
    /\ \E at \in {"pipe", "start"} : proc' = FailedAt(at)
    /\ unit' = u
    /\ LET c == CopyMatchers(heap, unitLogSpecs[u].LogMatchers)
       IN  /\ heap' = c.heap
           /\ matchCopy' = c.mc
    /\ consumed' = 0
    /\ line' = NoLine
    /\ out' = <<Msg(ErrorLevel, "sdLogReadErr", unitLogSpecs[u].Name, NoMessage,
                    Text("", NoMessage, "tmplLogReadErr"), NoClient)>>
    /\ evals' = << >>
    /\ fired' = << >>
    /\ fires' = ZeroFires
    /\ removed' = {}
    /\ removedAt' = 0
    /\ boundaryAt' = 0
    /\ stop' = "error"
    /\ pc' = "loop"
    /\ UNCHANGED <<unitLogSpecs, tlsClientErrorSeen, call, status, certLog, logVars, discVars>>

\* matchLogsSinceLastStart(unit, env) when the pipe or the start of journalctl fails
JournalFails(u) ==
    /\ pc = "idle"
    /\ CallAllowed(pass, u)
    /\ pass' = EnterScan(pass, unitLogSpecs[u].Name, TRUE)
    /\ \E at \in {"pipe", "start"} : proc' = FailedAt(at)
    /\ unit' = u
    /\ matchCopy' = [arr |-> CopyArr, len |-> 0]
    /\ heap' = [heap EXCEPT ![CopyArr] = << >>]
    /\ consumed' = 0
    /\ line' = NoLine
    /\ out' = <<Msg(ErrorLevel, "sdLogReadErr", unitLogSpecs[u].Name, NoMessage,
                    Text("", NoMessage, "tmplLogReadErr"), NoClient)>>
    /\ evals' = << >>
    /\ fired' = << >>
    /\ fires' = ZeroFires
    /\ removed' = {}
    /\ removedAt' = 0
    /\ boundaryAt' = 0
    /\ stop' = "error"
    /\ pc' = "done"
    /\ UNCHANGED <<unitLogSpecs, tlsClientErrorSeen, call, status, certLog, logVars, discVars>>

\* lineReader.Scan() delivers line l, one of the lines journal[unit] of a stream of
\* at most max lines, and the loop body runs on it
ScanLineOf(journal, max) ==
    /\ pc = "loop"
    /\ consumed < max
    /\ \E l \in journal[unit] :
       LET spec == unitLogSpecs[unit]
           st == [heap |-> heap, mc |-> matchCopy, seen |-> tlsClientErrorSeen,
                  out |-> << >>, evals |-> << >>, fired |-> << >>, removed |-> << >>,
                  brk |-> "none"]
           r == LoopBody(spec, st, l)
       IN  /\ heap' = r.heap
           /\ matchCopy' = r.mc
           /\ tlsClientErrorSeen' = r.seen
           /\ out' = r.out
           /\ evals' = r.evals
           /\ fired' = r.fired
           /\ fires' = [re \in AllRegexps |->
                          fires[re] + Cardinality({i \in 1..Len(r.fired) : r.fired[i] = re})]
           /\ removed' = removed \cup {r.removed[i] : i \in 1..Len(r.removed)}
           /\ removedAt' = IF r.removed # << >> THEN consumed + 1 ELSE removedAt
           /\ boundaryAt' = IF boundaryAt = 0 /\ l.json /\ MatchString(UnitSpecs[unit].StartMatch, l.Message)
                            THEN consumed + 1 ELSE boundaryAt
           /\ stop' = r.brk
           /\ pc' = IF r.brk = "none" THEN "loop" ELSE "done"
           /\ line' = l
           /\ certLog' = certLog \o BadCertLogged(r.out)
           /\ pass' = IF pass.at = "scan" /\ r.out # << >> /\ r.out[1].id = "sdLogBadJSON"
                      THEN [pass EXCEPT !.failed = pass.failed \cup {"json"}] ELSE pass
    /\ consumed' = consumed + 1
    /\ UNCHANGED <<unitLogSpecs, unit, call, status, proc, logVars, discVars>>

ScanLine == ScanLineOf(JournalLines, MaxLines)

\* (Variant: the end of the stream is reported as a failure to read the journal.)
ScanEOFWithError ==
    /\ pc = "loop"
    /\ pc' = "done"
    /\ stop' = "eof"
    /\ out' = <<Msg(ErrorLevel, "sdLogReadErr", unitLogSpecs[unit].Name, NoMessage,
                    Text("", NoMessage, "tmplLogReadErr"), NoClient)>>
    /\ UNCHANGED <<unitLogSpecs, heap, tlsClientErrorSeen, unit, matchCopy, consumed, line,
                   evals, fired, fires, removed, removedAt, boundaryAt, call, status,
                   certLog, proc, pass, logVars, discVars>>

\* lineReader.Scan() returns false: the stream has ended
ScanEOF ==
    /\ pc = "loop"
    /\ pc' = "done"
    /\ stop' = "eof"
    /\ UNCHANGED <<unitLogSpecs, heap, tlsClientErrorSeen, unit, matchCopy, consumed, line,
                   out, evals, fired, fires, removed, removedAt, boundaryAt, call, status,
                   certLog, proc, pass, logVars, discVars>>

\* matchLogsSinceLastStart returns (after the deferred reader.Close() and cmd.Wait()
\* if the journal was started): its locals are gone
Return ==
    /\ pc = "done"
    /\ pc' = "idle"
    /\ proc' = RunDeferred(proc, stop)
    /\ pass' = AfterScan(pass, stop)
    /\ unit' = 0
    /\ matchCopy' = [arr |-> CopyArr, len |-> 0]
    /\ heap' = [heap EXCEPT ![CopyArr] = << >>]
    /\ consumed' = 0
    /\ line' = NoLine
    /\ out' = << >>
    /\ evals' = << >>
    /\ fired' = << >>
    /\ fires' = ZeroFires
    /\ removed' = {}
    /\ removedAt' = 0
    /\ boundaryAt' = 0
    /\ stop' = "none"
    /\ UNCHANGED <<unitLogSpecs, tlsClientErrorSeen, call, status, certLog, logVars, discVars>>

----------------------------------------------------------------------------
(* The deferred function and the journalctl process, step by step *)

allButProc == <<unitLogSpecs, heap, tlsClientErrorSeen, pc, unit, matchCopy, consumed, line,
                out, evals, fired, fires, removed, removedAt, boundaryAt, stop, call,
                status, certLog, pass, logVars, discVars>>

\* journalctl writes a line into the pipe
ProducerWrite ==
    /\ proc.cmd = "running"
    /\ proc.stdout = "open"
    /\ proc.togo > 0
    /\ proc.fill < PipeCap
    /\ proc' = [proc EXCEPT !.fill = @ + 1, !.togo = @ - 1]
    /\ UNCHANGED allButProc

\* journalctl has written everything and exits
ProducerExit ==
    /\ proc.cmd = "running"
    /\ proc.togo = 0
    /\ proc' = [proc EXCEPT !.cmd = "exited"]
    /\ UNCHANGED allButProc

\* journalctl writes to a pipe whose read end is closed: the write fails (SIGPIPE)
\* and the process ends
ProducerBrokenPipe ==
    /\ proc.cmd = "running"
    /\ proc.togo > 0
    /\ proc.stdout = "closed"
    /\ proc' = [proc EXCEPT !.cmd = "exited", !.togo = 0]
    /\ UNCHANGED allButProc

\* reader.Close(): the read end is closed, what the pipe held is gone
DeferredClose ==
    /\ pc = "done"
    /\ NextDeferred(proc) = "close"
    /\ proc' = [proc EXCEPT !.stdout = "closed", !.fill = 0, !.step = @ + 1]
    /\ UNCHANGED allButProc

\* cmd.Wait() returns: it does so once the process has ended
DeferredWait ==
    /\ pc = "done"
    /\ NextDeferred(proc) = "wait"
    /\ proc.cmd = "exited"
    /\ proc' = [proc EXCEPT !.cmd = "reaped", !.step = @ + 1]
    /\ UNCHANGED allButProc

\* the deferred function has made its calls: matchLogsSinceLastStart returns
ReturnAfterDeferred ==
    /\ NextDeferred(proc) = "none"
    /\ Return

----------------------------------------------------------------------------
(* unitRequiresUnit *)

\* A message of unitRequiresUnit: log.Msg{"tmpl", "unit", "required", "reason"}
ReqMsg(level, id, tmpl, unitName, required, reason) ==
    [level |-> level, id |-> id, tmpl |-> tmpl, unit |-> unitName, required |-> required,
     reason |-> reason]

\* The messages one call of unitRequiresUnit logs, in order
unitRequiresUnitActiveFirst(u, requires, reason) ==
    IF u.Active /\ ~requires.Active
    THEN <<ReqMsg(ErrorLevel, "sdUnitReqActive", "tmplReqActive", u.Name, requires.Name, reason)>>
    ELSE IF (u.Active \/ u.Enabled) /\ ~requires.Exists
    THEN <<ReqMsg(ErrorLevel, "sdUnitReqLoaded", "tmplReqLoaded", u.Name, requires.Name, reason)>>
    ELSE IF u.Enabled /\ ~requires.Enabled
    THEN <<ReqMsg(WarnLevel, "sdUnitReqEnabled", "tmplReqEnabled", u.Name, requires.Name, reason)>>
    ELSE << >>

unitRequiresUnitNoElse(u, requires, reason) ==
    (IF (u.Active \/ u.Enabled) /\ ~requires.Exists
     THEN <<ReqMsg(ErrorLevel, "sdUnitReqLoaded", "tmplReqLoaded", u.Name, requires.Name, reason)>>
     ELSE << >>)
    \o (IF u.Active /\ ~requires.Active
        THEN <<ReqMsg(ErrorLevel, "sdUnitReqActive", "tmplReqActive", u.Name, requires.Name, reason)>>
        ELSE << >>)
    \o (IF u.Enabled /\ ~requires.Enabled
        THEN <<ReqMsg(WarnLevel, "sdUnitReqEnabled", "tmplReqEnabled", u.Name, requires.Name, reason)>>
        ELSE << >>)

unitRequiresUnit(u, requires, reason) ==
    IF (u.Active \/ u.Enabled) /\ ~requires.Exists
    THEN <<ReqMsg(ErrorLevel, "sdUnitReqLoaded", "tmplReqLoaded", u.Name, requires.Name, reason)>>
    ELSE IF u.Active /\ ~requires.Active
    THEN <<ReqMsg(ErrorLevel, "sdUnitReqActive", "tmplReqActive", u.Name, requires.Name, reason)>>
    ELSE IF u.Enabled /\ ~requires.Enabled
    THEN <<ReqMsg(WarnLevel, "sdUnitReqEnabled", "tmplReqEnabled", u.Name, requires.Name, reason)>>
    ELSE << >>

\* The unitRequiresUnit calls of the UnitStatus diagnostic, in order: dependent,
\* required, reason
UnitStatusCalls == <<
    <<"openshift-node", "iptables", "rsnIptables">>,
    <<"openshift-node", "docker", "rsnDocker">>,
    <<"openshift-node", "openshift-sdn-node", "rsnSdn">>,
    <<"openshift-sdn-master", "openshift-master", "rsnSdnMaster">>,
    <<"openshift-master", "openshift-sdn-master", "rsnSdnProvision">>,
    <<"openshift-sdn-node", "openvswitch", "rsnOvs">>,
    <<"openshift", "docker", "rsnDocker">>,
    <<"openshift", "iptables", "rsnIptables">> >>

RequiresCalls == {UnitStatusCalls[k] : k \in 1..Len(UnitStatusCalls)}

NoCall == [unit |-> SystemdUnit("", FALSE, FALSE, FALSE),
           requires |-> SystemdUnit("", FALSE, FALSE, FALSE),
           reason |-> "", out |-> << >>, done |-> FALSE]

\* unitRequiresUnit(unit, requires, reason) runs on the arguments drawn at the start
CallUnitRequiresUnit ==
    /\ ~call.done
    /\ call' = [call EXCEPT !.out = unitRequiresUnit(call.unit, call.requires, call.reason),
                            !.done = TRUE]
    /\ UNCHANGED <<scanVars, status, pass, logVars, discVars>>

----------------------------------------------------------------------------
(* The UnitStatus diagnostic *)

MaxUnits == 2   \* entries of the snapshot env.SystemdUnits, at most

\* Names a snapshot can hold: the units UnitStatus names, and one it does not
UnitNames ==
    UNION {{UnitStatusCalls[k][1], UnitStatusCalls[k][2]} : k \in 1..Len(UnitStatusCalls)}
    \cup {"etcd"}

UnitStates == {<<e, n, a>> : e \in BOOLEAN, n \in BOOLEAN, a \in BOOLEAN}

\* The snapshots: maps from at most MaxUnits names to the state of the unit
Snapshots ==
    UNION {[N -> UnitStates] : N \in {M \in SUBSET UnitNames : Cardinality(M) <= MaxUnits}}

\* (Variant: a name the map does not hold reads as a unit that is loaded.)
LookupAbsentLoaded(u, name) ==
    IF name \in DOMAIN u
    THEN SystemdUnit(name, u[name][1], u[name][2], u[name][3])
    ELSE SystemdUnit("", TRUE, FALSE, FALSE)

\* u[name] for the map u: the zero SystemdUnit for a name the map does not hold
Lookup(u, name) ==
    IF name \in DOMAIN u
    THEN SystemdUnit(name, u[name][1], u[name][2], u[name][3])
    ELSE SystemdUnit("", FALSE, FALSE, FALSE)

\* log.Error("sdUnitSDNreqSN", ...)
SdnNodeFinding == ReqMsg(ErrorLevel, "sdUnitSDNreqSN", "txtSDNreqSN", "", "", "")

\* if u["openshift-sdn-node"].Active && !u["openshift-node"].Active
SdnNodeWithoutNodeOrEnabled(u) ==
    /\ Lookup(u, "openshift-sdn-node").Active \/ Lookup(u, "openshift-sdn-node").Enabled
    /\ ~Lookup(u, "openshift-node").Active

SdnNodeWithoutNode(u) ==
    Lookup(u, "openshift-sdn-node").Active /\ ~Lookup(u, "openshift-node").Active

\* log.Errorm("sdUnitInactive", log.Msg{"tmpl": ..., "unit": name})
InactiveFinding(name) == ReqMsg(ErrorLevel, "sdUnitInactive", "tmplInactive", name, "", "")

\* if unit.Enabled && !unit.Active
EnabledAndActive(svc) == svc.Enabled /\ svc.Active

EnabledNotActive(svc) == svc.Enabled /\ ~svc.Active

\* The calls of unitRequiresUnit, from call k on
RECURSIVE PairwiseChecks(_, _)
PairwiseChecks(u, k) ==
    IF k > Len(UnitStatusCalls) THEN << >>
    ELSE unitRequiresUnit(Lookup(u, UnitStatusCalls[k][1]), Lookup(u, UnitStatusCalls[k][2]),
                          UnitStatusCalls[k][3])
         \o PairwiseChecks(u, k + 1)

\* (Variant: a sweep that passes over the units the pairwise checks name.)
RECURSIVE SweepUnnamedOnly(_, _)
SweepUnnamedOnly(u, order) ==
    IF order = << >> THEN << >>
    ELSE (IF /\ EnabledNotActive(Lookup(u, Head(order)))
             /\ \A k \in 1..Len(UnitStatusCalls) :
                   Head(order) \notin {UnitStatusCalls[k][1], UnitStatusCalls[k][2]}
          THEN <<InactiveFinding(Head(order))>>
          ELSE << >>)
         \o SweepUnnamedOnly(u, Tail(order))

\* for name, unit := range u { ... }: order is the order the range visits the keys in
RECURSIVE Sweep(_, _)
Sweep(u, order) ==
    IF order = << >> THEN << >>
    ELSE (IF EnabledNotActive(Lookup(u, Head(order))) THEN <<InactiveFinding(Head(order))>>
          ELSE << >>)
         \o Sweep(u, Tail(order))

\* The orders a range over the keys of map u can take
KeyOrders(u) ==
    {o \in [1..Cardinality(DOMAIN u) -> DOMAIN u] :
        \A i, j \in 1..Cardinality(DOMAIN u) : i # j => o[i] # o[j]}

\* Diagnostics["UnitStatus"].Run: the messages it logs, in order
UnitStatusRun(u, order) ==
    PairwiseChecks(u, 1)
    \o (IF SdnNodeWithoutNode(u) THEN <<SdnNodeFinding>> ELSE << >>)
    \o Sweep(u, order)

NoStatus ==
    [snap |-> << >>, env |-> << >>, out |-> << >>, done |-> TRUE, again |-> << >>,
     twice |-> TRUE]

\* UnitStatus about to run on snapshot u.  snap: the snapshot as it was handed over;
\* env: the map env.SystemdUnits now; out, again: the findings of the first and of
\* the second run
NewStatus(u) ==
    [snap |-> u, env |-> u, out |-> << >>, done |-> FALSE, again |-> << >>,
     twice |-> FALSE]

\* (Variant: a run that marks every unit it has looked at as active.)
SnapshotAfterMarkedActive(u) == [n \in DOMAIN u |-> <<u[n][1], u[n][2], TRUE>>]

\* env.SystemdUnits after a run of UnitStatus: the run only reads the map
SnapshotAfter(u) == u

\* UnitStatus runs on the snapshot
RunUnitStatus ==
    /\ ~status.done
    /\ \E order \in KeyOrders(status.env) :
          status' = [status EXCEPT !.out = UnitStatusRun(status.env, order),
                                   !.env = SnapshotAfter(status.env), !.done = TRUE]
    /\ UNCHANGED <<scanVars, call, pass, logVars, discVars>>

\* UnitStatus runs a second time, on the map the first run left
RerunUnitStatus ==
    /\ status.done
    /\ ~status.twice
    /\ \E order \in KeyOrders(status.env) :
          status' = [status EXCEPT !.again = UnitStatusRun(status.env, order),
                                   !.env = SnapshotAfter(status.env), !.twice = TRUE]
    /\ UNCHANGED <<scanVars, call, pass, logVars, discVars>>

----------------------------------------------------------------------------
(* The AnalyzeLogs diagnostic *)

\* env.SystemdUnits[name]: any state of the unit, or the zero value
SvcStates(name) ==
    {SystemdUnit(name, e, n, a) : e \in BOOLEAN, n \in BOOLEAN, a \in BOOLEAN} \cup {NoSvc}

\* for _, unit := range unitLogSpecs: the next unit, and its entry of the snapshot
PassNextUnit ==
    /\ pass.at = "range"
    /\ pass.idx < Len(UnitSpecs)
    /\ \E svc \in SvcStates(unitLogSpecs[pass.idx + 1].Name) :
          pass' = [pass EXCEPT !.at = "test", !.idx = pass.idx + 1, !.svc = svc]
    /\ UNCHANGED <<scanVars, call, status, logVars, discVars>>

\* the unit is neither enabled nor active: no scan
PassSkip ==
    /\ pass.at = "test"
    /\ ~ScanWanted(pass.svc)
    /\ pass' = [pass EXCEPT !.at = "range", !.svc = NoSvc]
    /\ UNCHANGED <<scanVars, call, status, logVars, discVars>>

\* the range is over
PassEnd ==
    /\ pass.at = "range"
    /\ pass.idx = Len(UnitSpecs)
    /\ pass' = [pass EXCEPT !.at = "end"]
    /\ UNCHANGED <<scanVars, call, status, logVars, discVars>>

----------------------------------------------------------------------------
(* Package log *)

MaxLogCalls == 3   \* calls of SetLevel and of the logging functions in a run, at most

\* type Level struct { Level int; Prefix string }
Level(level, prefix) == [Level |-> level, Prefix |-> prefix]

\* ErrorLevel, WarnLevel, InfoLevel, DebugLevel of package log
LogLevels == <<Level(ErrorLevel, "ERROR: "), Level(WarnLevel, "WARN: "),
               Level(InfoLevel, "Info: "), Level(DebugLevel, "debug: ")>>

LevelStruct(n) == LogLevels[n + 1]

\* var current Level = InfoLevel
DefaultLevel == LevelStruct(InfoLevel)

\* The messages handed to the logging functions
LogTexts == {"finding", "parse failure"}

\* fmt.Println(l.Prefix + msg): the line, as prefix and message
Println(prefix, msg) == <<prefix, msg>>

\* log(l, msg): the lines printed after the call
\* (Variant: a message at the threshold itself is not printed.)
logBelowThreshold(l, msg, cur, printed) ==
    IF l.Level < cur.Level THEN Append(printed, Println(l.Prefix, msg)) ELSE printed

log(l, msg, cur, printed) ==
    IF l.Level <= cur.Level THEN Append(printed, Println(l.Prefix, msg)) ELSE printed

LogCall(fn, level, msg) == [fn |-> fn, level |-> level, msg |-> msg]

\* func SetLevel(l Level) { current = l }
SetLevel(l) ==
    /\ Len(logCalls) < MaxLogCalls
    /\ current' = l
    /\ logCalls' = Append(logCalls, LogCall("SetLevel", l.Level, ""))
    /\ UNCHANGED <<stdout, scanVars, call, status, pass, discVars>>

\* Error(msg), Warn(msg), Info(msg), Debug(msg): each calls log with its Level
Logging(fn, l, msg) ==
    /\ Len(logCalls) < MaxLogCalls
    /\ stdout' = log(l, msg, current, stdout)
    /\ logCalls' = Append(logCalls, LogCall(fn, l.Level, msg))
    /\ UNCHANGED <<current, scanVars, call, status, pass, discVars>>

Error(msg) == Logging("Error", LevelStruct(ErrorLevel), msg)

Warn(msg) == Logging("Warn", LevelStruct(WarnLevel), msg)

Info(msg) == Logging("Info", LevelStruct(InfoLevel), msg)

Debug(msg) == Logging("Debug", LevelStruct(DebugLevel), msg)

\* package log as initialised
InitLog ==
    /\ current = DefaultLevel
    /\ stdout = << >>
    /\ logCalls = << >>

----------------------------------------------------------------------------
(* Package discovery *)

MaxDefaults == 1   \* default locations in config.FullClientConfigFilePriority(), after
                   \* the one of $OPENSHIFTCONFIG

MaxContexts == 2   \* contexts of the client config, at most

MaxErrPats == 2    \* texts the diagnosis looks for that one error message holds, at most

\* *osclientcmd.Factory: nil, the factory of the current context made before
\* configClient ("given"), or one made by configClient ("new")
Factory(kind, ctx) == [kind |-> kind, ctx |-> ctx]

NilFactory == Factory("nil", "")

\* *types.ContextAccess
ContextAccess(projects, clusterAdmin) ==
    [nil |-> FALSE, Projects |-> projects, ClusterAdmin |-> clusterAdmin]

NilAccess == [nil |-> TRUE, Projects |-> << >>, ClusterAdmin |-> FALSE]

\* A Go map with the keys of f and key k set to v
MapSet(f, k, v) == [n \in DOMAIN f \cup {k} |-> IF n = k THEN v ELSE f[n]]

EmptyMap == [n \in {} |-> 0]

\* The Environment before discovery: no client config recorded, no factory, no access
NoEnv == [ClientConfigPath |-> "", ClientConfigRaw |-> "nil",
          FactoryForContext |-> EmptyMap, AccessForContext |-> EmptyMap,
          ClusterAdminFactory |-> NilFactory]

NoDisc == [fn |-> "none"]

NoDiscovery == env = NoEnv /\ disc = NoDisc

\* A message handed to the log: level, id, and the path or context it is about
DiscMsg(level, id, about) == [level |-> level, id |-> id, about |-> about]

\* What is at a path: "empty" (the path is the empty string), "noexist", "noperm",
\* "openerr" (os.Open fails: no such file, no permission, another error), "readerr"
\* (ioutil.ReadAll fails), "yamlerr" (clientcmd.Load fails), "ok" (a config is read)
FileStates == {"empty", "noexist", "noperm", "openerr", "readerr", "yamlerr", "ok"}

File(path, state) == [path |-> IF state = "empty" THEN "" ELSE path, state |-> state]

\* append(confFlag, config.FullClientConfigFilePriority()...): the path of --config,
\* the path of $OPENSHIFTCONFIG, the default locations
DefaultLocations == <<"./.openshiftconfig", "~/.config/openshift/.config",
                      "/etc/openshift/.config">>

PriorityPaths ==
    <<"flag.config", "envvar.config">> \o SubSeq(DefaultLocations, 1, MaxDefaults)

\* errmsg of readClientConfigFiles for the path at index (counted from 0)
ErrmsgAt(index) ==
    CASE index = 0 -> "--config specified"
      [] index = 1 -> "$OPENSHIFTCONFIG specified"
      [] OTHER -> ""

AdminPaths == <<"/var/lib/openshift/openshift.certificates.d/admin/.kubeconfig",
                "/openshift.certificates.d/admin/.kubeconfig",
                "./openshift.certificates.d/admin/.kubeconfig">>

\* The *clientcmdapi.Config read from the file at path
ConfigOf(path) == <<"config of", path>>

\* openConfigFile(path, errmsg) on file f: the config returned ("nil": none) and the
\* messages logged
openConfigFile(f, errmsg) ==
    LET opened == <<DiscMsg(DebugLevel, "discOpenCC", f.path)>>
    IN  CASE f.path = "" -> [conf |-> "nil", out |-> << >>]
          [] f.path # "" /\ f.state = "ok" ->
                [conf |-> ConfigOf(f.path),
                 out |-> opened \o <<DiscMsg(InfoLevel, "discCCRead", f.path)>>]
          [] f.path # "" /\ f.state = "readerr" ->
                [conf |-> "nil",
                 out |-> opened \o <<DiscMsg(ErrorLevel, "discCCReadErr", f.path)>>]
          [] f.path # "" /\ f.state = "yamlerr" ->
                [conf |-> "nil",
                 out |-> opened \o <<DiscMsg(ErrorLevel, "discCCYamlErr", f.path)>>]
          [] OTHER ->
                [conf |-> "nil",
                 out |-> <<DiscMsg(
                            IF errmsg = "" THEN DebugLevel ELSE ErrorLevel,
                            CASE errmsg = "" -> "discOpenCCNo"
                              [] errmsg # "" /\ f.state = "noexist" -> "discOpenCCNoExist"
                              [] errmsg # "" /\ f.state = "noperm" -> "discOpenCCNoPerm"
                              [] OTHER -> "discOpenCCErr",
                            f.path)>>]

\* if rawConfig := openConfigFile(path, errmsg); rawConfig != nil && !found
\* (Variant: every config that is read is recorded.)
RecordEveryConfig(rawConfig, found) == rawConfig # "nil"

RecordFirstConfig(rawConfig, found) == rawConfig # "nil" /\ ~found

\* readClientConfigFiles(env) about to start, on the files at the priority paths and
\* at the admin paths
NewReadClientConfigFiles(files, admin) ==
    [fn |-> "readClientConfigFiles", files |-> files, admin |-> admin, index |-> 0,
     found |-> FALSE, out |-> << >>, at |-> "loop"]

\* one iteration of "for index, path := range append(confFlag, ...)"
TryConfigPath ==
    /\ disc.fn = "readClientConfigFiles"
    /\ disc.at = "loop"
    /\ disc.index < Len(disc.files)
    /\ LET f == disc.files[disc.index + 1]
           r == openConfigFile(f, ErrmsgAt(disc.index))
           rec == RecordFirstConfig(r.conf, disc.found)
       IN  /\ env' = IF rec THEN [env EXCEPT !.ClientConfigPath = f.path,
                                             !.ClientConfigRaw = r.conf]
                     ELSE env
           /\ disc' = [disc EXCEPT !.index = @ + 1, !.out = @ \o r.out,
                                   !.found = @ \/ rec]
    /\ UNCHANGED <<scanVars, call, status, pass, logVars>>

\* "for _, path := range adminPaths": the messages logged from place i on; the
\* first config read ends the loop
RECURSIVE TryAdminPaths(_, _)
TryAdminPaths(admin, i) ==
    IF i > Len(admin) THEN << >>
    ELSE LET r == openConfigFile(admin[i], "")
         IN  IF r.conf # "nil"
             THEN r.out \o <<DiscMsg(WarnLevel, "discCCautoPath", admin[i].path)>>
             ELSE r.out \o TryAdminPaths(admin, i + 1)

\* the range is over and no config was found: the warning, then the admin paths
NoConfigFound ==
    /\ disc.fn = "readClientConfigFiles"
    /\ disc.at = "loop"
    /\ disc.index = Len(disc.files)
    /\ ~disc.found
    /\ disc' = [disc EXCEPT !.at = "done",
                            !.out = @ \o <<DiscMsg(WarnLevel, "discNoCC", "")>>
                                      \o TryAdminPaths(disc.admin, 1)]
    /\ UNCHANGED <<env, scanVars, call, status, pass, logVars>>

\* the range is over and a config was found: readClientConfigFiles returns
ConfigFound ==
    /\ disc.fn = "readClientConfigFiles"
    /\ disc.at = "loop"
    /\ disc.index = Len(disc.files)
    /\ disc.found
    /\ disc' = [disc EXCEPT !.at = "done"]
    /\ UNCHANGED <<env, scanVars, call, status, pass, logVars>>

\* The texts the diagnosis of getContextAccess looks for in the error message, in the
\* order of its switch; an error message is the set of those it holds
ErrPatterns == <<"noResolveRx", "unknownCaMsg", "unneededCaMsg", "invalidCertNameRx",
                 "connRefusedRx", "connTimeoutRx", "malformedHTTPMsg", "malformedTLSMsg",
                 "unauthenticatedMsg">>

\* errId of each case of the switch, in the order of ErrPatterns
ErrIds == <<"clientNoResolve", "clientUnknownCa", "clientUnneededCa", "clientInvCertName",
            "clientInvCertName", "clientConnTimeout", "clientMalformedHTTP",
            "clientMalformedTLS", "clientUnauth">>

\* The case of the switch that takes the error message errm: the first whose text
\* the message holds, 0 for the default case
SwitchCase(errm) ==
    IF \A k \in 1..Len(ErrPatterns) : ErrPatterns[k] \notin errm THEN 0
    ELSE CHOOSE k \in 1..Len(ErrPatterns) :
            /\ ErrPatterns[k] \in errm
            /\ \A j \in 1..(k - 1) : ErrPatterns[j] \notin errm

\* errId of the switch for the error message errm
ErrId(errm) == IF SwitchCase(errm) = 0 THEN "clientUnknownConnErr" ELSE ErrIds[SwitchCase(errm)]

\* kapi.NamespaceDefault
NamespaceDefault == "default"

\* What the server does with the requests of a context.  kind "rawerr": RawConfig
\* fails; "ok": the project list is returned; "fail": the request fails with errm
Request(kind, projects, errm) == [kind |-> kind, projects |-> projects, errm |-> errm]

ProjectLists == {<< >>, <<"myproject">>, <<NamespaceDefault>>, <<"myproject", NamespaceDefault>>}

ErrorMessages ==
    {m \in SUBSET {ErrPatterns[k] : k \in 1..Len(ErrPatterns)} : Cardinality(m) <= MaxErrPats}

Requests ==
    {Request("rawerr", << >>, {})}
    \cup {Request("ok", p, {}) : p \in ProjectLists}
    \cup {Request("fail", << >>, m) : m \in ErrorMessages}

\* getContextAccess(factory, ctxName, ctx) when the server answers with req: the
\* access returned and the messages logged
getContextAccess(ctxName, req) ==
    CASE req.kind = "rawerr" ->
            [access |-> NilAccess, out |-> <<DiscMsg(ErrorLevel, "discCCstart", ctxName)>>]
      [] req.kind = "ok" ->
            [access |-> IF Len(req.projects) = 0 THEN NilAccess
                        ELSE ContextAccess(req.projects,
                                           \E i \in 1..Len(req.projects) :
                                               req.projects[i] = NamespaceDefault),
             out |-> <<DiscMsg(InfoLevel, "discCCctxSuccess", ctxName)>>]
      [] OTHER ->
            [access |-> NilAccess, out |-> <<DiscMsg(ErrorLevel, ErrId(req.errm), ctxName)>>]

\* getContextAccess about to be called for context ctxName
NewGetContextAccess(ctxName, req) ==
    [fn |-> "getContextAccess", ctx |-> ctxName, req |-> req, access |-> NilAccess,
     out |-> << >>, at |-> "call"]

CallGetContextAccess ==
    /\ disc.fn = "getContextAccess"
    /\ disc.at = "call"
    /\ LET r == getContextAccess(disc.ctx, disc.req)
       IN  disc' = [disc EXCEPT !.access = r.access, !.out = r.out, !.at = "done"]
    /\ UNCHANGED <<env, scanVars, call, status, pass, logVars>>

\* Names of the contexts of a client config
ContextNames == {"admin", "alice", "bob"}

\* access.ClusterAdmin && (cname == env.OsConfig.CurrentContext || env.ClusterAdminFactory == nil)
\* (Variant: every context with cluster-admin access is taken.)
TakeEveryAdmin(access, cname, currentContext, clusterAdminFactory) == access.ClusterAdmin

TakeAsClusterAdmin(access, cname, currentContext, clusterAdminFactory) ==
    access.ClusterAdmin /\ (cname = currentContext \/ clusterAdminFactory = NilFactory)

\* configClient(env) about to start.  contexts: env.OsConfig.Contexts as a map from
\* the names to what the server does for the context ("nil" OsConfig: hasConfig is
\* false); visited: the contexts the range has been at, in order
NewConfigClient(hasConfig, contexts, currentContext) ==
    [fn |-> "configClient", hasConfig |-> hasConfig, contexts |-> contexts,
     currentContext |-> currentContext, visited |-> << >>, out |-> << >>, at |-> "range"]

\* one iteration of "for cname, context := range env.OsConfig.Contexts" (a Go map:
\* the range takes the keys in any order)
VisitContext ==
    /\ disc.fn = "configClient"
    /\ disc.at = "range"
    /\ disc.hasConfig
    /\ \E cname \in DOMAIN disc.contexts \ {disc.visited[i] : i \in 1..Len(disc.visited)} :
       LET factories == IF cname \in DOMAIN env.FactoryForContext
                        THEN env.FactoryForContext
                        ELSE MapSet(env.FactoryForContext, cname, Factory("new", cname))
           r == getContextAccess(cname, disc.contexts[cname])
           take == TakeAsClusterAdmin(r.access, cname, disc.currentContext,
                                      env.ClusterAdminFactory)
       IN  /\ env' = [env EXCEPT
                        !.FactoryForContext = factories,
                        !.AccessForContext =
                            IF r.access.nil THEN @ ELSE MapSet(@, cname, r.access),
                        !.ClusterAdminFactory =
                            IF ~r.access.nil /\ take THEN factories[cname] ELSE @]
           /\ disc' = [disc EXCEPT !.visited = Append(@, cname), !.out = @ \o r.out]
    /\ UNCHANGED <<scanVars, call, status, pass, logVars>>

\* the range is over, or env.OsConfig is nil: configClient returns
ConfigClientReturn ==
    /\ disc.fn = "configClient"
    /\ disc.at = "range"
    /\ ~disc.hasConfig \/ Len(disc.visited) = Cardinality(DOMAIN disc.contexts)
    /\ disc' = [disc EXCEPT !.at = "done"]
    /\ UNCHANGED <<env, scanVars, call, status, pass, logVars>>

----------------------------------------------------------------------------
(* Specifications *)

\* unitLogSpecs as the package initialises it: the LogMatchers are slices over the
\* arrays of the slice literals
InitialCatalog ==
    [u \in Units |->
        [Name |-> UnitSpecs[u].Name, StartMatch |-> UnitSpecs[u].StartMatch,
         LogMatchers |-> [arr |-> UnitSpecs[u].Name, len |-> Len(UnitSpecs[u].LogMatchers)]]]

\* the arrays of the slice literals, and no working copy
InitialHeap ==
    [a \in {UnitSpecs[u].Name : u \in Units} \cup {CopyArr} |->
        IF a = CopyArr THEN << >>
        ELSE UnitSpecs[CHOOSE u \in Units : UnitSpecs[u].Name = a].LogMatchers]

InitScanner ==
    /\ unitLogSpecs = InitialCatalog
    /\ heap = InitialHeap
    /\ tlsClientErrorSeen = NilMap
    /\ pc = "idle"
    /\ unit = 0
    /\ matchCopy = [arr |-> CopyArr, len |-> 0]
    /\ consumed = 0
    /\ line = NoLine
    /\ out = << >>
    /\ evals = << >>
    /\ fired = << >>
    /\ fires = ZeroFires
    /\ removed = {}
    /\ removedAt = 0
    /\ boundaryAt = 0
    /\ stop = "none"
    /\ certLog = << >>
    /\ proc = NoProc

\* The scanner: any sequence of scans of catalog units over any log streams
Init ==
    /\ InitScanner /\ call = NoCall /\ status = NoStatus /\ pass = FreePass
    /\ InitLog /\ NoDiscovery

Next ==
    \/ \E u \in Units : StartScan(u)
    \/ \E u \in Units : JournalFails(u)
    \/ ScanLine
    \/ ScanEOF
    \/ Return

Spec == Init /\ [][Next]_vars

\* The dependency check: one call of unitRequiresUnit made by UnitStatus, on any
\* state of the two units
InitReq ==
    /\ InitScanner
    /\ InitLog
    /\ NoDiscovery
    /\ pass = FreePass
    /\ status = NoStatus
    /\ call \in {[unit |-> SystemdUnit(c[1], d[1], d[2], d[3]),
                  requires |-> SystemdUnit(c[2], r[1], r[2], r[3]),
                  reason |-> c[3], out |-> << >>, done |-> FALSE] :
                    c \in RequiresCalls,
                    d \in BOOLEAN \X BOOLEAN \X BOOLEAN,
                    r \in BOOLEAN \X BOOLEAN \X BOOLEAN}

NextReq == CallUnitRequiresUnit

SpecReq == InitReq /\ [][NextReq]_vars

\* The UnitStatus diagnostic, on any snapshot
InitStatus ==
    /\ InitScanner
    /\ InitLog
    /\ NoDiscovery
    /\ pass = FreePass
    /\ call = NoCall
    /\ status \in {NewStatus(u) : u \in Snapshots}

NextStatus ==
    \/ RunUnitStatus
    \/ RerunUnitStatus

SpecStatus == InitStatus /\ [][NextStatus]_vars

\* The diagnostics: one AnalyzeLogs pass over any log streams, or one UnitStatus run
\* on any snapshot
InitDiag ==
    /\ InitScanner
    /\ InitLog
    /\ NoDiscovery
    /\ call = NoCall
    /\ \/ pass = NewPass /\ status = NoStatus
       \/ /\ pass = [NewPass EXCEPT !.at = "off"]
          /\ status \in {NewStatus(u) : u \in Snapshots}

NextDiag ==
    \/ PassNextUnit
    \/ PassSkip
    \/ PassEnd
    \/ \E u \in Units : StartScan(u)
    \/ \E u \in Units : JournalFails(u)
    \/ ScanLine
    \/ ScanEOF
    \/ Return
    \/ RunUnitStatus

SpecDiag == InitDiag /\ [][NextDiag]_vars

\* The end of a scan, step by step, with the journalctl process running beside it.
\* It starts where the read loop of the first scan of a process has just ended: at
\* once at the end of the stream, or on the first line l (a start line, or any line
\* for a unit without matchers).  At the end of the stream journalctl has ended;
\* otherwise it may have lines in the pipe and lines still to write.
InitPipe ==
    /\ InitLog
    /\ NoDiscovery
    /\ unitLogSpecs = InitialCatalog
    /\ call = NoCall
    /\ status = NoStatus
    /\ pass = FreePass
    /\ pc = "done"
    /\ evals = << >>
    /\ fired = << >>
    /\ fires = ZeroFires
    /\ removed = {}
    /\ removedAt = 0
    /\ tlsClientErrorSeen = NilMap
    /\ certLog = << >>
    /\ out = << >>
    /\ \E u \in Units : \E l \in JournalLines[u] \cup {NoLine} :
          LET c == CopyMatchers(InitialHeap, InitialCatalog[u].LogMatchers)
              st == [heap |-> c.heap, mc |-> c.mc, seen |-> NilMap, out |-> << >>,
                     evals |-> << >>, fired |-> << >>, removed |-> << >>, brk |-> "none"]
              r == IF l = NoLine THEN [st EXCEPT !.brk = "eof"]
                   ELSE LoopBody(InitialCatalog[u], st, l)
              start == l.json /\ MatchString(UnitSpecs[u].StartMatch, l.Message)
          IN  /\ r.brk # "none"
              /\ unit = u
              /\ heap = r.heap
              /\ matchCopy = r.mc
              /\ line = l
              /\ consumed = (IF l = NoLine THEN 0 ELSE 1)
              /\ boundaryAt = (IF start THEN 1 ELSE 0)
              /\ stop = r.brk
              /\ proc \in {[Started EXCEPT !.cmd = k, !.fill = f, !.togo = t] :
                             k \in {"running", "exited"}, f \in 0..PipeCap,
                             t \in 0..MaxOutput}
              /\ proc.cmd = "exited" => proc.togo = 0
              /\ r.brk = "eof" => proc.cmd = "exited" /\ proc.fill = 0

NextPipe ==
    \/ ProducerWrite
    \/ ProducerExit
    \/ ProducerBrokenPipe
    \/ DeferredClose
    \/ DeferredWait
    \/ ReturnAfterDeferred

SpecPipe == InitPipe /\ [][NextPipe]_vars

\* Long scans of openshift-master: streams of up to MaxMasterLines lines, each a
\* JSON record whose message matches exactly one expression of the unit (one of its
\* matchers, or its StartMatch)
OneRuleLines ==
    [u \in Units |-> {l \in JournalLines[u] : l.json /\ Cardinality(l.Message.pats) = 1}]

StartMasterScan == \E u \in Units : UnitSpecs[u].Name = "openshift-master" /\ StartScan(u)

ScanOneRuleLine == ScanLineOf(OneRuleLines, MaxMasterLines)

NextMaster ==
    \/ StartMasterScan
    \/ ScanOneRuleLine
    \/ ScanEOF
    \/ Return

SpecMaster == Init /\ [][NextMaster]_vars

\* Package log: any sequence of calls of SetLevel and of the logging functions
InitSink ==
    /\ InitScanner /\ call = NoCall /\ status = NoStatus /\ pass = FreePass
    /\ InitLog /\ NoDiscovery

NextSink ==
    \/ \E n \in {ErrorLevel, WarnLevel, InfoLevel, DebugLevel} : SetLevel(LevelStruct(n))
    \/ \E msg \in LogTexts : Error(msg)
    \/ \E msg \in LogTexts : Warn(msg)
    \/ \E msg \in LogTexts : Info(msg)
    \/ \E msg \in LogTexts : Debug(msg)

SpecSink == InitSink /\ [][NextSink]_vars

\* readClientConfigFiles on any files at the priority paths and at the admin paths
InitConfigFiles ==
    /\ InitScanner /\ call = NoCall /\ status = NoStatus /\ pass = FreePass
    /\ InitLog
    /\ env = NoEnv
    /\ \E states \in [1..Len(PriorityPaths) -> FileStates] :
       \E adminStates \in [1..Len(AdminPaths) -> {"noexist", "ok"}] :
          disc = NewReadClientConfigFiles(
                    [i \in 1..Len(PriorityPaths) |-> File(PriorityPaths[i], states[i])],
                    [i \in 1..Len(AdminPaths) |-> File(AdminPaths[i], adminStates[i])])

NextConfigFiles ==
    \/ TryConfigPath
    \/ NoConfigFound
    \/ ConfigFound

SpecConfigFiles == InitConfigFiles /\ [][NextConfigFiles]_vars

\* getContextAccess for any context, on any answer of the server
InitAccess ==
    /\ InitScanner /\ call = NoCall /\ status = NoStatus /\ pass = FreePass
    /\ InitLog
    /\ env = NoEnv
    /\ \E cname \in ContextNames : \E req \in Requests :
          disc = NewGetContextAccess(cname, req)

NextAccess == CallGetContextAccess

SpecAccess == InitAccess /\ [][NextAccess]_vars

\* What the server does for the contexts in the runs of configClient
ClientRequests ==
    {req \in Requests : req.kind = "fail" => req.errm \in {{}, {"connRefusedRx"}}}

\* configClient on any client config of at most MaxContexts contexts, with or without
\* the factory of the current context made beforehand
InitClient ==
    /\ InitScanner /\ call = NoCall /\ status = NoStatus /\ pass = FreePass
    /\ InitLog
    /\ \E names \in {N \in SUBSET ContextNames : Cardinality(N) <= MaxContexts} :
       \E contexts \in [names -> ClientRequests] :
       \E currentContext \in ContextNames :
       \E hasConfig \in BOOLEAN :
       \E given \in BOOLEAN :
          /\ disc = NewConfigClient(hasConfig, contexts, currentContext)
          /\ env = [NoEnv EXCEPT !.FactoryForContext =
                        IF given THEN MapSet(EmptyMap, currentContext,
                                             Factory("given", currentContext))
                        ELSE EmptyMap]

NextClient ==
    \/ VisitContext
    \/ ConfigClientReturn

SpecClient == InitClient /\ [][NextClient]_vars

----------------------------------------------------------------------------
(* Properties of the scanner *)

RangeOf(seq) == {seq[i] : i \in 1..Len(seq)}

\* Regexps of the matchers in the working copy now
ActiveNow == RegexpsOf(Elems(heap, matchCopy))

\* Regexps of the matchers that were in the working copy when the last line arrived
ActiveBefore ==
    ActiveNow \cup (IF consumed > 0 /\ removedAt = consumed THEN RangeOf(fired) ELSE {})

\* Place of the matcher with Regexp re in the declared matcher list of unit u
CatalogPos(u, re) ==
    CHOOSE i \in 1..Len(UnitSpecs[u].LogMatchers) : UnitSpecs[u].LogMatchers[i].Regexp = re

\* The declared matcher of unit u with Regexp re
CatalogMatcher(u, re) == UnitSpecs[u].LogMatchers[CatalogPos(u, re)]

\* The last line was parsed, was not the start boundary and met a working copy
\* that was not empty: it was matched against the working copy
Evaluated ==
    /\ unit # 0
    /\ ~line.none
    /\ line.json
    /\ ~MatchString(UnitSpecs[unit].StartMatch, line.Message)
    /\ stop \in {"none", "eof"}

\* Regexps of the matchers of the working copy the last line matches
Candidates == {re \in ActiveBefore : MatchString(re, line.Message)}

\* The earliest of them in declared order
FirstCandidate ==
    CHOOSE re \in Candidates :
        \A other \in Candidates : CatalogPos(unit, re) <= CatalogPos(unit, other)

\* C1: once a parsed line matching the unit's StartMatch has been delivered, the
\* scan is over: that line is the last line read, no matcher was tested or fired
\* on it and nothing was logged for it.
C1_StopAtBoundary ==
    boundaryAt # 0 =>
        /\ consumed = boundaryAt
        /\ pc = "done"
        /\ stop \in {"boundary", "empty"}
        /\ fired = << >>
        /\ evals = << >>
        /\ out = << >>

\* the boundary line also matches a matcher still in the working copy, after
\* earlier lines were scanned
C1_Witness ==
    /\ boundaryAt >= 2
    /\ stop = "boundary"
    /\ \E re \in ActiveNow : MatchString(re, line.Message)

\* C2: on every line at most one matcher fires, and the matcher that fired is the
\* last one tested against the line.
C2_OneMatcherPerEntry ==
    /\ Len(fired) <= 1
    /\ fired # << >> => evals[Len(evals)] = fired[1]
    /\ \A i, j \in 1..Len(evals) : i # j => evals[i] # evals[j]

\* a matcher fired on a line that a later matcher of the working copy matches too
C2_Witness ==
    /\ Len(fired) = 1
    /\ \E re \in ActiveNow :
          /\ re # fired[1]
          /\ MatchString(re, line.Message)
          /\ CatalogPos(unit, re) > CatalogPos(unit, fired[1])

\* C3: the matcher that fires on an entry is the earliest, in declared order, of the
\* matchers of the working copy that match the entry, and one fires whenever one
\* matches.
C3_EarliestMatcherFires ==
    /\ \A i \in 1..Len(fired) :
          /\ fired[i] \in Candidates
          /\ \A re \in Candidates : CatalogPos(unit, fired[i]) <= CatalogPos(unit, re)
    /\ (Evaluated /\ Candidates # {}) => fired = <<FirstCandidate>>

\* docker: the generic fatal rule fires on a line the usage rule matches too, the
\* usage rule being retired; or the usage rule fires and shadows the fatal rule
C3_Witness ==
    /\ unit # 0
    /\ UnitSpecs[unit].Name = "docker"
    /\ {"reDbadOpt", "reDfatal"} \subseteq line.Message.pats
    /\ fired = <<"reDfatal">>
    /\ "reDbadOpt" \in removed

\* C4: a matcher removed from the working copy is not in it, is not tested against
\* any later line and has fired once; a matcher without Interpret whose
\* KeepAfterMatch is false fires at most once in a scan.
C4_RetiredNeverAgain ==
    /\ \A re \in removed :
          /\ re \notin ActiveNow
          /\ fires[re] = 1
          /\ re \in RangeOf(evals) => (removedAt = consumed /\ fired = <<re>>)
    /\ unit # 0 =>
          \A i \in 1..Len(UnitSpecs[unit].LogMatchers) :
              LET m == UnitSpecs[unit].LogMatchers[i]
              IN  (m.Interpret = NoInterpret /\ ~m.KeepAfterMatch) => fires[m.Regexp] <= 1

\* a later line matches a matcher that was retired by an earlier line
C4_Witness ==
    \E re \in removed :
        /\ MatchString(re, line.Message)
        /\ line.json
        /\ stop = "none"
        /\ re \notin RangeOf(fired)
        /\ fires[re] = 1

\* C5: when the working copy has become empty, the lines consumed from the stream
\* are those up to the line that retired the last matcher.
C5_NoReadAfterEmpty ==
    (removed # {} /\ matchCopy.len = 0) => consumed = removedAt

\* C6: on an evaluated entry whose first matching matcher has no Interpret exactly one
\* message is logged, at the Level and with the Id of that matcher, with the unit
\* name and the log message; on an evaluated entry no matcher matches nothing is logged.
C6_StaticFinding ==
    Evaluated =>
        IF Candidates = {} THEN out = << >>
        ELSE LET m == CatalogMatcher(unit, FirstCandidate)
             IN  m.Interpret = NoInterpret =>
                    /\ Len(out) = 1
                    /\ out[1].level = m.Level
                    /\ out[1].id = m.Id
                    /\ out[1].unit = UnitSpecs[unit].Name
                    /\ out[1].logMsg = line.Message
                    /\ out[1].text = Text(UnitSpecs[unit].Name, line.Message, m.Interpretation)

\* a matcher without Interpret fired on a line that matches two matchers of the working copy
C6_Witness ==
    /\ Evaluated
    /\ Cardinality(Candidates) = 2
    /\ CatalogMatcher(unit, FirstCandidate).Interpret = NoInterpret
    /\ Len(out) = 1

\* C7: on an evaluated entry whose first matching matcher has an Interpret function,
\* the function ran once (the client is in tlsClientErrorSeen), everything logged
\* came from it, and the matcher is in the working copy afterwards exactly if the
\* function returned true, which it did, though KeepAfterMatch is false.
C7_CustomHandler ==
    (Evaluated /\ Candidates # {}) =>
        LET m == CatalogMatcher(unit, FirstCandidate)
        IN  m.Interpret # NoInterpret =>
               /\ fired = <<m.Regexp>>
               /\ fires[m.Regexp] >= 1
               /\ ~tlsClientErrorSeen.nil
               /\ line.Message.client \in tlsClientErrorSeen.keys
               /\ Len(out) <= 1
               /\ \A i \in 1..Len(out) :
                     /\ out[i].id = "sdLogOMreBadCert"
                     /\ out[i].client = line.Message.client
                     /\ out[i] # StaticFinding(UnitSpecs[unit].Name, m, [Message |-> line.Message])
               /\ ~m.KeepAfterMatch
               /\ m.Regexp \in ActiveNow

\* the bad-certificate matcher fires a second time in a scan, on a client already
\* seen, and logs nothing
C7_Witness ==
    /\ Evaluated
    /\ fired = <<"reBadCert">>
    /\ fires["reBadCert"] >= 2
    /\ out = << >>

\* C8: the catalog never changes, and every scan starts from the whole declared
\* matcher list of its unit, whatever earlier scans removed.
C8_CatalogUnchanged ==
    /\ \A u \in Units :
          /\ unitLogSpecs[u].Name = UnitSpecs[u].Name
          /\ unitLogSpecs[u].StartMatch = UnitSpecs[u].StartMatch
          /\ LogMatchersOf(u) = UnitSpecs[u].LogMatchers
    /\ (pc = "loop" /\ consumed = 0) => Elems(heap, matchCopy) = UnitSpecs[unit].LogMatchers
    /\ unit # 0 => \A re \in ActiveNow : re \in RegexpsOf(UnitSpecs[unit].LogMatchers)

\* badImageTemplate is retired in a scan of openshift-master while the lists of
\* openshift-master and openshift-node still start with it
C8_Witness ==
    /\ unit # 0
    /\ UnitSpecs[unit].Name = "openshift-master"
    /\ "reBadImage" \in removed
    /\ "reBadImage" \notin ActiveNow
    /\ \E u \in Units :
          /\ UnitSpecs[u].Name = "openshift-node"
          /\ LogMatchersOf(u)[1] = badImageTemplate
    /\ LogMatchersOf(unit)[1] = badImageTemplate

\* C13: over the whole run the bad-certificate Interpret has logged one message per
\* client address in tlsClientErrorSeen, none twice for one address; the first
\* message of the run is the full explanation, every later one the note for a
\* different client; a message it logs on an entry is about the client of that entry.
C13_OneFindingPerClient ==
    /\ \A i, j \in 1..Len(certLog) : i # j => certLog[i].client # certLog[j].client
    /\ {certLog[i].client : i \in 1..Len(certLog)} = tlsClientErrorSeen.keys
    /\ \A i \in 1..Len(certLog) :
          certLog[i].body = IF i = 1 THEN "txtBadCertFull" ELSE "txtBadCertOtherClient"
    /\ fired = <<"reBadCert">> =>
          /\ Len(out) <= 1
          /\ line.Message.client \in tlsClientErrorSeen.keys
          /\ out # << >> =>
                /\ out[1].client = line.Message.client
                /\ certLog[Len(certLog)].client = line.Message.client

\* two addresses have been reported and the entry of an address already reported
\* fires the matcher and logs nothing
C13_Witness ==
    /\ Len(certLog) = 2
    /\ fired = <<"reBadCert">>
    /\ out = << >>

\* C14: in a scan of openshift-master the bad-certificate matcher is in the working
\* copy at every point and is never removed, however often its Interpret ran.
C14_BadCertAlwaysKept ==
    (unit # 0 /\ UnitSpecs[unit].Name = "openshift-master" /\ stop # "error") =>
        /\ "reBadCert" \in ActiveNow
        /\ "reBadCert" \notin removed
        /\ fired = <<"reBadCert">> => evals[Len(evals)] = "reBadCert"

\* Interpret ran three times in one scan: first match of the run, a new client, a repeat
C14_Witness ==
    /\ fires["reBadCert"] = 3
    /\ Len(certLog) = 2
    /\ out = << >>
    /\ "reBadCert" \in ActiveNow

\* C15: tlsClientErrorSeen is nil until a step in which the bad-certificate matcher
\* fires; once it is a map it stays one and loses no address, across entries, scans
\* and units; no message is logged for an address it already holds.
C15_SeenSetOnlyGrows ==
    [][ /\ ~tlsClientErrorSeen.nil =>
              /\ ~tlsClientErrorSeen'.nil
              /\ tlsClientErrorSeen.keys \subseteq tlsClientErrorSeen'.keys
        /\ (tlsClientErrorSeen.nil /\ ~tlsClientErrorSeen'.nil) => fired' = <<"reBadCert">>
        /\ tlsClientErrorSeen.nil => certLog = << >>
        /\ Len(certLog') > Len(certLog) =>
              certLog'[Len(certLog')].client \notin tlsClientErrorSeen.keys
      ]_vars

\* the first line of a scan is a bad-certificate entry and logs nothing: its client
\* was reported in an earlier scan
C15_Witness ==
    /\ consumed = 1
    /\ fires["reBadCert"] = 1
    /\ fired = <<"reBadCert">>
    /\ out = << >>
    /\ line.Message.client \in tlsClientErrorSeen.keys

\* C16: when the journal cannot be piped or started, the scan logs one message, the
\* Error sdLogReadErr naming the unit, and is over: no line was read, no matcher was
\* tested or fired or removed, no process runs, and the function returns.
C16_JournalFailure ==
    stop = "error" =>
        /\ pc = "done"
        /\ out = <<Msg(ErrorLevel, "sdLogReadErr", UnitSpecs[unit].Name, NoMessage,
                       Text("", NoMessage, "tmplLogReadErr"), NoClient)>>
        /\ consumed = 0
        /\ line = NoLine
        /\ evals = << >>
        /\ fired = << >>
        /\ fires = ZeroFires
        /\ removed = {}
        /\ matchCopy.len = 0
        /\ proc.cmd = "none"

\* the journal of a unit with matchers failed to start, after an earlier scan
C16_Witness ==
    /\ stop = "error"
    /\ Len(out) = 1
    /\ unitLogSpecs[unit].LogMatchers.len > 0
    /\ ~tlsClientErrorSeen.nil

\* C17: a line the loop body parses and that is not JSON gives one message, the Debug
\* sdLogBadJSON, is tested against neither StartMatch nor a matcher, changes neither
\* the working copy nor the catalog nor tlsClientErrorSeen, and leaves the loop
\* running, so the next line meets the state the line before left.
C17_BadJSON ==
    [][ (pc = "loop" /\ consumed' = consumed + 1 /\ ~line'.json /\ matchCopy.len > 0) =>
            /\ Len(out') = 1
            /\ out'[1].level = DebugLevel
            /\ out'[1].id = "sdLogBadJSON"
            /\ evals' = << >>
            /\ fired' = << >>
            /\ boundaryAt' = boundaryAt
            /\ matchCopy' = matchCopy
            /\ heap' = heap
            /\ removed' = removed
            /\ tlsClientErrorSeen' = tlsClientErrorSeen
            /\ certLog' = certLog
            /\ stop' = "none"
            /\ pc' = "loop"
      ]_vars

\* a line that is not JSON, after a line that removed a matcher; the loop runs on
C17_Witness ==
    /\ pc = "loop"
    /\ consumed = 2
    /\ removedAt = 1
    /\ ~line.json
    /\ ~line.none
    /\ Len(out) = 1
    /\ out[1].id = "sdLogBadJSON"
    /\ matchCopy.len > 0

\* C19: when matchLogsSinceLastStart has returned, no stdout pipe is open and no
\* process is running and unreaped: after a scan that started the journal the pipe is
\* closed and the process reaped, however the loop ended; after a failure to start it
\* there is no process.  During such a scan the deferred function is registered.
C19_Released ==
    /\ pc = "idle" =>
          /\ proc.stdout # "open"
          /\ proc.cmd # "running"
          /\ ~proc.deferred
          /\ proc.exit \in {"eof", "boundary", "empty"} =>
                proc.stdout = "closed" /\ proc.cmd = "reaped"
          /\ proc.exit = "error" => proc.cmd = "none"
    /\ (pc # "idle" /\ stop # "error") => proc = Started

\* a scan that ended on an empty working copy has returned
C19_Witness ==
    /\ pc = "idle"
    /\ proc.exit = "empty"
    /\ proc.stdout = "closed"
    /\ proc.cmd = "reaped"

\* C20: the read loop of a started scan ends only when Scan() returns false, when a
\* parsed line matches StartMatch, or when the working copy is empty; on every other
\* line (not JSON, matching a matcher or none, whatever Interpret returns) it goes on.
C20_LoopEnds ==
    [][ /\ (pc = "loop" /\ pc' # "loop") =>
              \/ consumed' = consumed /\ stop' = "eof"
              \/ /\ consumed' = consumed + 1
                 /\ matchCopy.len > 0
                 /\ line'.json
                 /\ MatchString(UnitSpecs[unit].StartMatch, line'.Message)
                 /\ stop' = "boundary"
              \/ /\ consumed' = consumed + 1
                 /\ matchCopy.len = 0
                 /\ stop' = "empty"
        /\ ( /\ pc = "loop"
             /\ consumed' = consumed + 1
             /\ matchCopy.len > 0
             /\ ~(line'.json /\ MatchString(UnitSpecs[unit].StartMatch, line'.Message)) ) =>
              pc' = "loop" /\ stop' = "none"
      ]_vars

\* the loop runs on after a line whose matcher fired and was kept by its Interpret,
\* in a scan that has removed a matcher before
C20_Witness ==
    /\ pc = "loop"
    /\ consumed = MaxLines
    /\ fired = <<"reBadCert">>
    /\ removed # {}
    /\ removedAt < consumed
    /\ matchCopy.len > 0

\* A journal line whose message matches the bad-certificate expression, and no
\* other, with the client address c
CertLine(c) ==
    [json |-> TRUE, Message |-> [pats |-> {"reBadCert"}, client |-> c], none |-> FALSE]

\* C24: in a scan of openshift-master by a process that has seen no bad certificate
\* yet, a bad-certificate entry from 10.0.0.5 gives the full explanation for that
\* client, and a bad-certificate entry from 10.0.0.6 that follows it at once gives
\* the note for a different client; both times the matcher fires, stays in the
\* working copy and the loop goes on.
C24_ScenarioB ==
    [][ /\ ( /\ pc = "loop"
             /\ unit # 0
             /\ UnitSpecs[unit].Name = "openshift-master"
             /\ tlsClientErrorSeen.nil
             /\ consumed' = consumed + 1
             /\ line' = CertLine("10.0.0.5") ) =>
               /\ fired' = <<"reBadCert">>
               /\ Len(out') = 1
               /\ out'[1].level = WarnLevel
               /\ out'[1].id = "sdLogOMreBadCert"
               /\ out'[1].client = "10.0.0.5"
               /\ out'[1].text.body = "txtBadCertFull"
               /\ "reBadCert" \in RegexpsOf(Elems(heap', matchCopy'))
               /\ pc' = "loop"
        /\ ( /\ pc = "loop"
             /\ line = CertLine("10.0.0.5")
             /\ Len(out) = 1
             /\ out[1].text.body = "txtBadCertFull"
             /\ consumed' = consumed + 1
             /\ line' = CertLine("10.0.0.6") ) =>
               /\ fired' = <<"reBadCert">>
               /\ Len(out') = 1
               /\ out'[1].level = WarnLevel
               /\ out'[1].id = "sdLogOMreBadCert"
               /\ out'[1].client = "10.0.0.6"
               /\ out'[1].text.body = "txtBadCertOtherClient"
               /\ "reBadCert" \in RegexpsOf(Elems(heap', matchCopy'))
               /\ matchCopy' = matchCopy
               /\ pc' = "loop"
      ]_vars

\* the second entry of the scenario has been scanned: the two messages of the run
\* are the full text for 10.0.0.5 and the note for 10.0.0.6
C24_Witness ==
    /\ pc = "loop"
    /\ consumed = 2
    /\ line = CertLine("10.0.0.6")
    /\ fires["reBadCert"] = 2
    /\ certLog = <<[client |-> "10.0.0.5", body |-> "txtBadCertFull"],
                   [client |-> "10.0.0.6", body |-> "txtBadCertOtherClient"]>>
    /\ Len(out) = 1

\* the first matcher, in declared order, that was in the working copy when the last
\* line arrived
FirstActiveBefore ==
    CHOOSE re \in ActiveBefore :
        \A other \in ActiveBefore : CatalogPos(unit, re) <= CatalogPos(unit, other)

KeptOnMatch(re) ==
    IF CatalogMatcher(unit, re).Interpret # NoInterpret
    THEN CatalogMatcher(unit, re).Interpret = "badCert"
    ELSE CatalogMatcher(unit, re).KeepAfterMatch

\* C26: the working copy is the declared matcher list without the matchers removed
\* in this scan, in declared order; a matcher that fired with keep decision true is
\* still in it; and when the first matcher matching a line is one with keep decision
\* true it fires, whatever number of times it has fired before.
C26_KeptFiresAgain ==
    (unit # 0 /\ stop # "error") =>
        /\ LET Left(m) == m.Regexp \notin removed
           IN  Elems(heap, matchCopy) = SelectSeq(UnitSpecs[unit].LogMatchers, Left)
        /\ \A re \in RangeOf(fired) :
              KeptOnMatch(re) => re \in ActiveNow /\ re \notin removed
        /\ (Evaluated /\ Candidates # {} /\ KeptOnMatch(FirstCandidate)) =>
              /\ fired = <<FirstCandidate>>
              /\ fires[FirstCandidate] >= 1
              /\ FirstCandidate \in ActiveNow

\* the bad-certificate matcher fires for the second time in a scan that has removed
\* a matcher listed before it
C26_Witness ==
    /\ fired = <<"reBadCert">>
    /\ fires["reBadCert"] = 2
    /\ "reBadImage" \in removed
    /\ Len(Elems(heap, matchCopy)) = 4
    /\ Elems(heap, matchCopy)[3].Regexp = "reBadCert"

\* C29: a scan of a unit whose declared matcher list is empty, once its journal has
\* started, logs nothing at all, tests no matcher and never stops for the start
\* boundary: the first line delivered, whatever it is, ends the loop on the empty
\* working copy.  The only message such a scan logs is the one of a journal that
\* could not be started.
C29_EmptyMatcherList ==
    (unit # 0 /\ UnitSpecs[unit].LogMatchers = << >>) =>
        /\ out # << >> =>
              /\ stop = "error"
              /\ Len(out) = 1
              /\ out[1].id = "sdLogReadErr"
        /\ evals = << >>
        /\ fired = << >>
        /\ removed = {}
        /\ stop # "boundary"
        /\ consumed <= 1
        /\ consumed = 1 => stop = "empty" /\ pc = "done"

\* the one line read in a scan of openshift-sdn-master is its start line: the scan
\* ends on the empty working copy
C29_Witness ==
    /\ unit # 0
    /\ UnitSpecs[unit].Name = "openshift-sdn-master"
    /\ consumed = 1
    /\ line.json
    /\ MatchString(UnitSpecs[unit].StartMatch, line.Message)
    /\ stop = "empty"
    /\ out = << >>

\* Regexps of the matchers removed in this scan before the last line arrived
RemovedBefore ==
    removed \ (IF consumed > 0 /\ removedAt = consumed THEN RangeOf(fired) ELSE {})

\* Regexps of the declared matchers of the unit not removed before the last line
\* that match it
StillListed ==
    {re \in RegexpsOf(UnitSpecs[unit].LogMatchers) \ RemovedBefore :
        MatchString(re, line.Message)}

\* C30: when a line that is matched against the working copy matches a matcher A
\* removed earlier in the scan and a matcher B listed after A and not removed, and
\* B is the first matcher not removed that matches the line, then B fires: A is not
\* tested and does not stand in B's way.
C30_RemovedDoesNotShadow ==
    Evaluated =>
        \A a \in RemovedBefore : \A b \in StillListed :
            ( /\ MatchString(a, line.Message)
              /\ CatalogPos(unit, a) < CatalogPos(unit, b)
              /\ \A other \in StillListed : CatalogPos(unit, b) <= CatalogPos(unit, other) ) =>
                /\ fired = <<b>>
                /\ a \notin RangeOf(evals)
                /\ evals[Len(evals)] = b

\* reBadImage was removed on an earlier line of a scan of openshift-master; the last
\* line matches reBadImage and reOMIgnore, and reOMIgnore fires
C30_Witness ==
    /\ unit # 0
    /\ UnitSpecs[unit].Name = "openshift-master"
    /\ "reBadImage" \in RemovedBefore
    /\ line.Message.pats = {"reBadImage", "reOMIgnore"}
    /\ fired = <<"reOMIgnore">>
    /\ Len(out) = 1
    /\ out[1].id = "sdLogOMIgnore"

\* Places in the declared matcher list of the unit of the matchers of the working
\* copy, in the order of the working copy
CopyPlaces ==
    [i \in 1..matchCopy.len |-> CatalogPos(unit, heap[matchCopy.arr][i].Regexp)]

\* C31: at every point of a scan the working copy is a subsequence of the declared
\* matcher list of the unit: each of its matchers is a declared matcher, they stand
\* in declared order with none twice, the copy is shorter than the declared list by
\* exactly the matchers removed so far, and the line read last removed at most one
\* matcher, the one that fired on it.
C31_Subsequence ==
    (unit # 0 /\ stop # "error") =>
        /\ \A i \in 1..matchCopy.len :
               heap[matchCopy.arr][i] = UnitSpecs[unit].LogMatchers[CopyPlaces[i]]
        /\ \A i, j \in 1..matchCopy.len : i < j => CopyPlaces[i] < CopyPlaces[j]
        /\ matchCopy.len + Cardinality(removed) = Len(UnitSpecs[unit].LogMatchers)
        /\ removed \subseteq RegexpsOf(UnitSpecs[unit].LogMatchers)
        /\ Cardinality(removed) - Cardinality(RemovedBefore) <= 1
        /\ (removedAt = consumed /\ consumed > 0) =>
               /\ Len(fired) = 1
               /\ removed = RemovedBefore \cup {fired[1]}

\* two lines of a scan of openshift-master removed reBadImage and reOMhzRef: the
\* three matchers left stand in declared order
C31_Witness ==
    /\ unit # 0
    /\ UnitSpecs[unit].Name = "openshift-master"
    /\ removed = {"reBadImage", "reOMhzRef"}
    /\ removedAt = consumed
    /\ fired = <<"reOMhzRef">>
    /\ RegexpsOf(Elems(heap, matchCopy)) = {"reOMIgnore", "reBadCert", "reOMunauthNode"}
    /\ CopyPlaces = <<2, 4, 5>>

\* C32: in a scan of openshift-master the working copy never becomes empty: the scan
\* never stops on an empty working copy, and when it is over it ended at the start
\* line or at the end of the stream.
C32_MasterNeverExhausted ==
    (unit # 0 /\ UnitSpecs[unit].Name = "openshift-master" /\ stop # "error") =>
        /\ matchCopy.len >= 1
        /\ Cardinality(removed) < Len(UnitSpecs[unit].LogMatchers)
        /\ stop \in {"none", "boundary", "eof"}
        /\ pc = "done" => stop \in {"boundary", "eof"}

\* four lines removed the four other matchers of openshift-master, and the fifth
\* line fires the bad-certificate matcher, which is all that is left of the working
\* copy; the scan goes on
C32_Witness ==
    /\ unit # 0
    /\ UnitSpecs[unit].Name = "openshift-master"
    /\ Cardinality(removed) = 4
    /\ consumed = 5
    /\ fired = <<"reBadCert">>
    /\ Elems(heap, matchCopy) = <<CatalogMatcher(unit, "reBadCert")>>
    /\ pc = "loop"
    /\ stop = "none"

\* C33 (as claimed): every message logged for a line that fired a matcher carries
\* an id that is not empty, and the matcher that fired, if it has no Interpret
\* function, has an Id that is not empty.
C33_EveryFindingHasId ==
    (unit # 0 /\ fired # << >>) =>
        /\ \A i \in 1..Len(out) : out[i].id # ""
        /\ \A i \in 1..Len(fired) :
               CatalogMatcher(unit, fired[i]).Interpret = NoInterpret =>
                   CatalogMatcher(unit, fired[i]).Id # ""

\* the docker unit in the catalog
DockerUnit == CHOOSE u \in Units : UnitSpecs[u].Name = "docker"

\* C23 (as claimed): in a scan of docker whose first line is the message
\* level="fatal" ... and whose second line is Starting Docker Application Container
\* Engine., the first line gives one Error finding sdLogDfatal and the second line
\* ends the scan with no finding, so that no third line is read.
C23_ScenarioA ==
    [][ ( /\ pc = "loop"
          /\ unit = DockerUnit
          /\ consumed = 1
          /\ line = DockerLine(FatalFirst)
          /\ consumed' = 2
          /\ line' = DockerLine(DockerStarting) ) =>
            /\ Len(out) = 1
            /\ out[1].level = ErrorLevel
            /\ out[1].id = "sdLogDfatal"
            /\ fired = <<"reDfatal">>
            /\ out' = << >>
            /\ pc' = "done"
            /\ stop' = "boundary"
      ]_vars

----------------------------------------------------------------------------
(* Properties of unitRequiresUnit *)

\* The tiers as the specification words them
TieredReference(d, r, reason) ==
    IF (d.Active \/ d.Enabled) /\ ~r.Exists
    THEN <<ReqMsg(ErrorLevel, "sdUnitReqLoaded", "tmplReqLoaded", d.Name, r.Name, reason)>>
    ELSE IF d.Active /\ ~r.Active
    THEN <<ReqMsg(ErrorLevel, "sdUnitReqActive", "tmplReqActive", d.Name, r.Name, reason)>>
    ELSE IF d.Enabled /\ ~r.Enabled
    THEN <<ReqMsg(WarnLevel, "sdUnitReqEnabled", "tmplReqEnabled", d.Name, r.Name, reason)>>
    ELSE << >>

\* C9: for every state of the dependent and the required unit, unitRequiresUnit logs
\* exactly the finding of the tiered reference.
C9_TieredFinding ==
    call.done => call.out = TieredReference(call.unit, call.requires, call.reason)

\* the third tier: the dependent is enabled, the required unit exists and is not enabled
C9_Witness ==
    /\ call.done
    /\ call.unit.Enabled /\ ~call.unit.Active
    /\ call.requires.Exists /\ ~call.requires.Enabled /\ ~call.requires.Active
    /\ Len(call.out) = 1
    /\ call.out[1].level = WarnLevel

\* C10: one call logs at most one finding; when an Error tier applies no Warn is
\* logged; an active and enabled dependent of a unit that does not exist gets the
\* one Error with the install remedy.
C10_ErrorSuppressesWarn ==
    call.done =>
        LET d == call.unit
            r == call.requires
            errorTier == \/ (d.Active \/ d.Enabled) /\ ~r.Exists
                         \/ d.Active /\ ~r.Active
        IN  /\ Len(call.out) <= 1
            /\ errorTier => \A i \in 1..Len(call.out) : call.out[i].level = ErrorLevel
            /\ errorTier => Len(call.out) = 1
            /\ (d.Active /\ d.Enabled /\ ~r.Exists) =>
                  /\ Len(call.out) = 1
                  /\ call.out[1].level = ErrorLevel
                  /\ call.out[1].id = "sdUnitReqLoaded"

\* an active and enabled dependent, the required unit missing (so neither active nor enabled)
C10_Witness ==
    /\ call.done
    /\ call.unit.Active /\ call.unit.Enabled
    /\ ~call.requires.Exists /\ ~call.requires.Active /\ ~call.requires.Enabled
    /\ Len(call.out) = 1
    /\ call.out[1].id = "sdUnitReqLoaded"

----------------------------------------------------------------------------
(* Properties of UnitStatus *)

\* Places in the findings of UnitStatus of the messages with this id about this unit
FindingsOf(id, name) ==
    {i \in 1..Len(status.out) : status.out[i].id = id /\ status.out[i].unit = name}

\* Places of the messages that name the unit, as dependent, required or swept unit
Mentions(name) ==
    {i \in 1..Len(status.out) : status.out[i].unit = name \/ status.out[i].required = name}

\* Names the pairwise rules and the special case refer to
ReferencedNames ==
    UNION {{UnitStatusCalls[k][1], UnitStatusCalls[k][2]} : k \in 1..Len(UnitStatusCalls)}

\* The sweep reports every unit of the snapshot that is enabled and not active once,
\* at the given level, and that is the only finding about such a unit that no rule
\* refers to.
SweepReportsAt(level) ==
    status.done =>
        \A n \in DOMAIN status.snap :
            (status.snap[n][2] /\ ~status.snap[n][3]) =>
                /\ Cardinality(FindingsOf("sdUnitInactive", n)) = 1
                /\ \A i \in FindingsOf("sdUnitInactive", n) : status.out[i].level = level
                /\ n \notin ReferencedNames =>
                      /\ Cardinality(Mentions(n)) = 1
                      /\ \A i \in Mentions(n) : status.out[i].level = level

\* C11 (as claimed): the sweep reports every enabled, inactive unit of the snapshot
\* with a Warn finding, the only finding of the pass for a unit no rule refers to.
C11_SweepWarn == SweepReportsAt(WarnLevel)

\* C11 (amended): the sweep reports every enabled, inactive unit of the snapshot
\* with an Error finding sdUnitInactive, the only finding of the pass for a unit no
\* rule refers to.
C11_SweepError == SweepReportsAt(ErrorLevel)

\* an enabled, inactive unit no rule refers to is swept together with another unit
C11_Witness ==
    /\ status.done
    /\ "etcd" \in DOMAIN status.snap
    /\ status.snap["etcd"][2] /\ ~status.snap["etcd"][3]
    /\ Cardinality(Mentions("etcd")) = 1
    /\ \E n \in DOMAIN status.snap : n # "etcd" /\ FindingsOf("sdUnitInactive", n) # {}

\* C12: UnitStatus logs the Error sdUnitSDNreqSN once if openshift-sdn-node is active
\* and openshift-node is not, and not at all otherwise, whatever the other flags are.
C12_SdnNodeSpecialCase ==
    status.done =>
        LET found == {i \in 1..Len(status.out) : status.out[i].id = "sdUnitSDNreqSN"}
            sdnActive == /\ "openshift-sdn-node" \in DOMAIN status.snap
                         /\ status.snap["openshift-sdn-node"][3]
            nodeActive == /\ "openshift-node" \in DOMAIN status.snap
                          /\ status.snap["openshift-node"][3]
        IN  /\ Cardinality(found) = (IF sdnActive /\ ~nodeActive THEN 1 ELSE 0)
            /\ \A i \in found : status.out[i].level = ErrorLevel

\* openshift-sdn-node runs though it neither exists nor is enabled in the snapshot,
\* openshift-node is enabled and not running
C12_Witness ==
    /\ status.done
    /\ DOMAIN status.snap = {"openshift-sdn-node", "openshift-node"}
    /\ status.snap["openshift-sdn-node"] = <<FALSE, FALSE, TRUE>>
    /\ status.snap["openshift-node"] = <<TRUE, TRUE, FALSE>>
    /\ \E i \in 1..Len(status.out) : status.out[i].id = "sdUnitSDNreqSN"

\* Times message m occurs in the sequence of messages
Occurrences(msgs, m) == Cardinality({i \in 1..Len(msgs) : msgs[i] = m})

\* A finding of the pairwise checks or of the special case (not of the sweep)
IsRuleFinding(m) == m.id # "sdUnitInactive"

InactiveFindings == {i \in 1..Len(status.out) : status.out[i].id = "sdUnitInactive"}

\* C27: the findings sdUnitInactive of a UnitStatus run are one for each unit of the
\* snapshot that is enabled and not active, and no other: none for a unit in another
\* state, none for a name the snapshot does not hold, and one also for a unit that a
\* pairwise check or the special case has reported.
C27_SweepEveryUnit ==
    status.done =>
        /\ \A n \in DOMAIN status.snap :
              Cardinality(FindingsOf("sdUnitInactive", n)) =
                  (IF status.snap[n][2] /\ ~status.snap[n][3] THEN 1 ELSE 0)
        /\ \A i \in InactiveFindings : status.out[i].unit \in DOMAIN status.snap
        /\ Cardinality(InactiveFindings) =
              Cardinality({n \in DOMAIN status.snap : status.snap[n][2] /\ ~status.snap[n][3]})

\* docker is enabled and not active: openshift-node, which is active, is reported
\* for needing it, and the sweep reports docker as well
C27_Witness ==
    /\ status.done
    /\ DOMAIN status.snap = {"openshift-node", "docker"}
    /\ status.snap["openshift-node"][3]
    /\ \E i \in 1..Len(status.out) :
          /\ status.out[i].unit = "openshift-node"
          /\ status.out[i].required = "docker"
    /\ Cardinality(FindingsOf("sdUnitInactive", "docker")) = 1

----------------------------------------------------------------------------
(* Properties of the diagnostics *)

\* The findings call k of UnitStatus gives on snapshot u, taken by itself
FindingsOfCall(u, k) ==
    unitRequiresUnit(Lookup(u, UnitStatusCalls[k][1]), Lookup(u, UnitStatusCalls[k][2]),
                     UnitStatusCalls[k][3])

\* C18: an AnalyzeLogs pass goes through the catalog unit by unit to its end: a unit
\* that is enabled or active is scanned (sdCheckLogs logged for it), whatever went
\* wrong in the scans before it; a scan that returns, however it ended, hands the
\* range on at the same unit; the pass ends only after the last unit.  A UnitStatus
\* run holds the findings of every pairwise check, of the special case and of the
\* sweep, each as it is by itself.
C18_NothingAborts ==
    [][ /\ (pass.at = "test" /\ ScanWanted(pass.svc)) =>
              /\ pass'.at = "scan"
              /\ pass'.idx = pass.idx
              /\ unit' = pass.idx
              /\ pass'.info = UnitSpecs[pass.idx].Name
              /\ pc' \in {"loop", "done"}
        /\ (pass.at = "test" /\ ~ScanWanted(pass.svc)) =>
              pass'.at = "range" /\ pass'.idx = pass.idx /\ pc' = "idle"
        /\ (pass.at = "scan" /\ pc' = "idle") =>
              pass'.at = "range" /\ pass'.idx = pass.idx
        /\ pass.at = "range" =>
              pass' = pass \/
              IF pass.idx < Len(UnitSpecs)
              THEN pass'.at = "test" /\ pass'.idx = pass.idx + 1
              ELSE pass'.at = "end" /\ pass'.idx = pass.idx
        /\ pass'.at = "end" => pass'.idx = Len(UnitSpecs)
        /\ (~status.done /\ status'.done) =>
              /\ \A k \in 1..Len(UnitStatusCalls) :
                    RangeOf(FindingsOfCall(status.snap, k)) \subseteq RangeOf(status'.out)
              /\ SdnNodeWithoutNode(status.snap) => SdnNodeFinding \in RangeOf(status'.out)
              /\ \A n \in DOMAIN status.snap :
                    EnabledNotActive(Lookup(status.snap, n)) =>
                        InactiveFinding(n) \in RangeOf(status'.out)
      ]_vars

\* the last catalog unit is being scanned in a pass in which, before this scan, a
\* journal could not be read and a line was not JSON
C18_Witness ==
    /\ pass.at = "scan"
    /\ pass.idx = Len(UnitSpecs)
    /\ pass.failed = {"journal", "json"}
    /\ pc = "loop"
    /\ consumed = 0

\* C21: in an AnalyzeLogs pass a scan is called only for the unit the range is at,
\* only if its snapshot entry is enabled or active, and then always: on the working
\* copy of that unit's own matchers, with sdCheckLogs logged for it.  A unit that is
\* neither is passed over with no message and no journalctl command.  The range
\* moves one unit forward at a time and only between scans, so every unit is looked
\* at once, in catalog order.
C21_ScanIffWanted ==
    [][ pass.at \notin {"free", "off"} =>
          /\ (pc = "idle" /\ pc' # "idle") =>
                /\ pass.at = "test"
                /\ pass.svc.Enabled \/ pass.svc.Active
                /\ unit' = pass.idx
                /\ pass'.at = "scan"
                /\ pass'.info = UnitSpecs[pass.idx].Name
                /\ pc' = "loop" =>
                      Elems(heap', matchCopy') = UnitSpecs[pass.idx].LogMatchers
          /\ (pass.at = "test" /\ (pass.svc.Enabled \/ pass.svc.Active)) => pc' # "idle"
          /\ (pass.at = "test" /\ ~(pass.svc.Enabled \/ pass.svc.Active)) =>
                /\ pc' = "idle"
                /\ out' = out
                /\ proc' = proc
                /\ pass'.info = ""
                /\ pass'.at = "range"
          /\ pass'.idx # pass.idx =>
                /\ pass.at = "range"
                /\ pass'.at = "test"
                /\ pass'.idx = pass.idx + 1
                /\ pass'.svc.Name \in {"", UnitSpecs[pass'.idx].Name}
          /\ pass.at = "scan" => pass'.at \in {"scan", "range"}
          /\ pass.at = "range" => pc = "idle" /\ pass'.at \in {"test", "end"}
      ]_vars

\* the second catalog unit is neither enabled nor active, after the first one was
\* scanned to the end of its journal
C21_Witness ==
    /\ pass.at = "test"
    /\ pass.idx = 2
    /\ ~pass.svc.Enabled
    /\ ~pass.svc.Active
    /\ pass.svc.Exists
    /\ proc.exit = "eof"

----------------------------------------------------------------------------
(* Properties of the deferred function *)

\* the scanner is in cmd.Wait() and the process has not ended
InWait == pc = "done" /\ NextDeferred(proc) = "wait" /\ proc.cmd # "exited"

\* C28: when the read loop has ended, the deferred function closes the read end of
\* the pipe before it waits: while the scanner is in cmd.Wait() the read end is
\* closed, so journalctl is never blocked on a full pipe while the scanner waits
\* for it, and the scanner does not return before the process is reaped.
C28_CloseBeforeWait ==
    /\ ~(InWait /\ WriteBlocked(proc))
    /\ (pc = "done" /\ NextDeferred(proc) = "wait") => proc.stdout = "closed"
    /\ InWait => proc.cmd = "running" /\ (proc.togo = 0 \/ proc.stdout = "closed")
    /\ (pc = "done" /\ NextDeferred(proc) = "none") => proc.cmd = "reaped"
    /\ pc = "idle" => proc.stdout = "closed" /\ proc.cmd = "reaped"

\* the loop ended on the start line while journalctl was blocked on the full pipe;
\* the read end is closed now and the scanner waits for the process, which still
\* has lines to write
C28_Witness ==
    /\ stop = "boundary"
    /\ InWait
    /\ proc.stdout = "closed"
    /\ proc.togo = MaxOutput
    /\ proc.fill = 0

\* The message unitRequiresUnit logs for call k when the required unit is not
\* loaded: the required unit is named by its Name field, empty in the zero value
NotLoadedFinding(k) ==
    ReqMsg(ErrorLevel, "sdUnitReqLoaded", "tmplReqLoaded", UnitStatusCalls[k][1], "",
           UnitStatusCalls[k][3])

\* The findings s.out of a UnitStatus run on snapshot s.snap treat every name the
\* snapshot does not hold as a unit that is not loaded, not enabled and not active
AbsentAsZero(s) ==
    \A n \in UnitNames \ DOMAIN s.snap :
        \* the sweep does not report it
        /\ \A i \in 1..Len(s.out) : s.out[i].unit # n /\ s.out[i].required # n
        \* as dependent unit it gives no finding
        /\ \A i \in 1..Len(s.out) :
               s.out[i].id \in {"sdUnitReqLoaded", "sdUnitReqActive", "sdUnitReqEnabled"} =>
                   s.out[i].unit \in DOMAIN s.snap
        \* as required unit it gives the finding "not loaded", and no other, exactly
        \* when the dependent unit is active or enabled
        /\ \A k \in 1..Len(UnitStatusCalls) :
               (UnitStatusCalls[k][2] = n /\ UnitStatusCalls[k][1] \in DOMAIN s.snap) =>
                   LET d == s.snap[UnitStatusCalls[k][1]]
                       ofCall == {i \in 1..Len(s.out) :
                                     /\ s.out[i].unit = UnitStatusCalls[k][1]
                                     /\ s.out[i].reason = UnitStatusCalls[k][3]}
                   IN  IF d[2] \/ d[3]
                       THEN /\ Cardinality(ofCall) = 1
                            /\ \A i \in ofCall : s.out[i] = NotLoadedFinding(k)
                       ELSE ofCall = {}

\* C34: a unit name the snapshot does not hold is read as the zero SystemdUnit (not
\* loaded, not enabled, not active): AnalyzeLogs passes over it without a scan, the
\* sweep of UnitStatus does not report it, as dependent unit of a pairwise check it
\* gives no finding, and as required unit it gives the Error finding sdUnitReqLoaded
\* exactly when the dependent unit is active or enabled.
C34_AbsentUnitIsZero ==
    [][ /\ (pass.at = "test" /\ pass.svc = NoSvc) =>
               /\ pc' = "idle"
               /\ pass'.at = "range"
               /\ proc' = proc
               /\ out' = out
        /\ (~status.done /\ status'.done) => AbsentAsZero(status')
      ]_vars

\* UnitStatus ran on a snapshot that holds openshift-node, enabled, and not docker:
\* the check of openshift-node against docker reported docker as not loaded
C34_Witness ==
    /\ status.done
    /\ DOMAIN status.snap = {"openshift-node"}
    /\ status.snap["openshift-node"] = <<TRUE, TRUE, FALSE>>
    /\ \E i \in 1..Len(status.out) : status.out[i] = NotLoadedFinding(2)

----------------------------------------------------------------------------
(* Properties of package log *)

\* Severity of the levels, by number: Error > Warn > Info > Debug
Severity == (ErrorLevel :> 4) @@ (WarnLevel :> 3) @@ (InfoLevel :> 2) @@ (DebugLevel :> 1)

\* The threshold in force at call i: that of the last SetLevel before it, or Info
ThresholdAt(i) ==
    LET sets == {j \in 1..(i - 1) : logCalls[j].fn = "SetLevel"}
    IN  IF sets = {} THEN InfoLevel
        ELSE logCalls[CHOOSE j \in sets : \A k \in sets : k <= j].level

\* Places in logCalls of the messages that are at least as severe as the threshold
\* in force at their call
Severe ==
    {i \in 1..Len(logCalls) :
        /\ logCalls[i].fn # "SetLevel"
        /\ Severity[logCalls[i].level] >= Severity[ThresholdAt(i)]}

PrefixOf == (ErrorLevel :> "ERROR: ") @@ (WarnLevel :> "WARN: ") @@ (InfoLevel :> "Info: ")
            @@ (DebugLevel :> "debug: ")

\* C35: the lines printed are those of the messages at least as severe as the
\* threshold in force at their call, in the order of the calls, each with the prefix
\* of its level; the threshold is Info until SetLevel is called, so until then Debug
\* messages are not printed and Error, Warn and Info messages are; an Error message
\* is printed at every threshold.
C35_PrintIffSevere ==
    /\ Len(stdout) = Cardinality(Severe)
    /\ \A i \in Severe :
           stdout[Cardinality({j \in Severe : j <= i})] =
               <<PrefixOf[logCalls[i].level], logCalls[i].msg>>
    /\ (\A i \in 1..Len(logCalls) : logCalls[i].fn # "SetLevel") =>
           /\ current.Level = InfoLevel
           /\ \A i \in 1..Len(logCalls) : (i \in Severe) <=> (logCalls[i].fn # "Debug")
    /\ \A i \in 1..Len(logCalls) : logCalls[i].fn = "Error" => i \in Severe

\* a Debug message was not printed at the default threshold; after SetLevel(DebugLevel)
\* the next Debug message was
C35_Witness ==
    /\ Len(logCalls) = 3
    /\ logCalls[1].fn = "Debug"
    /\ logCalls[2] = LogCall("SetLevel", DebugLevel, "")
    /\ logCalls[3].fn = "Debug"
    /\ stdout = <<<<"debug: ", logCalls[3].msg>>>>

----------------------------------------------------------------------------
(* Properties of package discovery *)

\* Places among the paths tried so far where a config was read
ReadSoFar == {i \in 1..disc.index : disc.files[i].state = "ok"}

\* Occurrences of the messages with the given id in the log of the discovery function
Logged(id) == Cardinality({i \in 1..Len(disc.out) : disc.out[i].id = id})

\* C36: at every point of readClientConfigFiles the environment holds the path and
\* the config of the first file in priority order, among those tried so far, that
\* was opened and parsed: a later file that is read does not replace it.  When no
\* file was read the fields are unset, and discNoCC is logged once, at the end of
\* the function; it is not logged when a file was read.
C36_FirstConfigRecorded ==
    disc.fn = "readClientConfigFiles" =>
        /\ IF ReadSoFar = {}
           THEN env = NoEnv
           ELSE LET first == CHOOSE i \in ReadSoFar : \A j \in ReadSoFar : i <= j
                IN  /\ env.ClientConfigPath = PriorityPaths[first]
                    /\ env.ClientConfigRaw = ConfigOf(PriorityPaths[first])
        /\ Logged("discNoCC") = IF disc.at = "done" /\ ReadSoFar = {} THEN 1 ELSE 0
        /\ \A i \in 1..Len(disc.out) :
               disc.out[i].id = "discNoCC" => disc.out[i].level = WarnLevel

\* the file of --config does not exist, the files of $OPENSHIFTCONFIG and of the
\* default location are both read: the environment holds the one of $OPENSHIFTCONFIG
C36_Witness ==
    /\ disc.fn = "readClientConfigFiles"
    /\ disc.at = "done"
    /\ disc.files[1].state = "noexist"
    /\ disc.files[2].state = "ok"
    /\ disc.files[3].state = "ok"
    /\ env.ClientConfigPath = "envvar.config"

\* The contexts of the client config that have cluster-admin access: the server
\* returns a project list with the default project in it
AdminContexts ==
    {n \in DOMAIN disc.contexts :
        /\ disc.contexts[n].kind = "ok"
        /\ \E i \in 1..Len(disc.contexts[n].projects) :
               disc.contexts[n].projects[i] = NamespaceDefault}

\* C37: when configClient has returned and the current context has cluster-admin
\* access, ClusterAdminFactory is the factory of the current context, in whatever
\* order the contexts were visited; and a step of configClient sets
\* ClusterAdminFactory to the factory of a context that is not the current one only
\* when it was nil before (and that context has cluster-admin access).
C37_CurrentAdminPreferred ==
    [][ disc.fn = "configClient" =>
          /\ (disc'.at = "done" /\ disc.hasConfig /\ disc.currentContext \in AdminContexts) =>
                /\ disc.currentContext \in DOMAIN env'.FactoryForContext
                /\ env'.ClusterAdminFactory = env'.FactoryForContext[disc.currentContext]
                /\ env'.ClusterAdminFactory.ctx = disc.currentContext
          /\ (/\ env'.ClusterAdminFactory # env.ClusterAdminFactory
              /\ env'.ClusterAdminFactory.ctx # disc.currentContext) =>
                /\ env.ClusterAdminFactory = NilFactory
                /\ env'.ClusterAdminFactory.ctx \in AdminContexts
      ]_vars

\* two contexts with cluster-admin access, the current one visited last: it was
\* taken over the one taken first
C37_Witness ==
    /\ disc.fn = "configClient"
    /\ disc.at = "done"
    /\ disc.hasConfig
    /\ AdminContexts = {"admin", "alice"}
    /\ disc.currentContext = "alice"
    /\ disc.visited = <<"admin", "alice">>
    /\ env.ClusterAdminFactory = Factory("new", "alice")

\* C38 (as claimed): when the project-list request of getContextAccess has failed,
\* one message was logged, at Error level, nil was returned, and the id of the
\* message is not the id under which a failure of another class (another case of the
\* switch) is reported.
C38_OwnIdPerClass ==
    (disc.fn = "getContextAccess" /\ disc.at = "done" /\ disc.req.kind = "fail") =>
        /\ Len(disc.out) = 1
        /\ disc.out[1].level = ErrorLevel
        /\ disc.access = NilAccess
        /\ \A m \in ErrorMessages :
               SwitchCase(m) # SwitchCase(disc.req.errm) => disc.out[1].id # ErrId(m)

====
